---- MODULE Spec2Model ----
(***************************************************************************)
(* Model of shuliangfu/stream.                                             *)
(*                                                                         *)
(* Sessions: ServerPublisher (src/src/server/publisher.ts) and             *)
(* ServerSubscriber (src/src/server/subscriber.ts), together with the      *)
(* FFmpeg process helpers they call (src/src/utils/batch-operations.ts)    *)
(* and the protocol detector (src/src/utils/protocol.ts): Spec and         *)
(* SpecOverlap; the detector alone: SpecDetect.  Backend adapters          *)
(* (src/src/adapters): SpecAdapter.  Connection pool (ConnectionPool):     *)
(* SpecPool, SpecPoolOverlap and, with factories that settle late,         *)
(* SpecPoolLate.  ReconnectManager (src/src/utils/reconnect.ts):           *)
(* SpecReconnect and, for liveness, SpecReconnectFair.  LRUCache           *)
(* (src/src/utils/cache.ts): SpecCache.  DataQueue: SpecQueue.             *)
(* Each specification moves the variables of its own component and leaves  *)
(* the others at their initial values.                                     *)
(*                                                                         *)
(* One session object is modelled; `kind` says which of the two classes    *)
(* was constructed.  Every async method is cut at its awaits: the          *)
(* synchronous prefix of a call is one action and every continuation after *)
(* an await is one action, so that other calls and control-channel         *)
(* messages interleave at exactly the places the event loop allows.        *)
(***************************************************************************)
EXTENDS Integers, Sequences, FiniteSets, Bags, TLC

VARIABLES
  kind,            \* "publisher" | "subscriber": the class that was constructed
  status,          \* this.status
  url,             \* this.url (NoUrl = undefined)
  options,         \* this.options, reduced to its loop key
  loop,            \* this.loop (publisher)
  io,              \* this.io: "undefined" | "server"
  eventListeners,  \* this.eventListeners: the events that have a listener
  ffmpegProcess,   \* this.ffmpegProcess: 0 = undefined, else index in procs
  tempFilePath,    \* this.tempFilePath: 0 = undefined, else index in temps
  hlsPlaylistPath, \* this.hlsPlaylistPath: 0 = undefined, else index of its dir
  hlsTempDir,      \* this.hlsTempDir: 0 = undefined, else index in temps
  hlsProcess,      \* this.hlsProcess: 0 = undefined, else index in procs
  channel,         \* the Socket.IO server behind io: "none" | "open" | "closed"
  ioListeners,     \* the "connection" handler of setupSocketIOListeners is registered
  procs,           \* external processes spawned so far
  temps,           \* temp files and directories created so far
  protocolCache,   \* protocolCache of protocol.ts: set of [url, protocol] entries
  connectPc,       \* where the connect() call in flight is suspended
  publishPc,       \* where the publish() call in flight is suspended
  subscribePc,     \* where the subscribe() call in flight is suspended
  stopPc,          \* where the stop() call in flight is suspended
  previousStatus,  \* stop(): const previousStatus
  source,          \* publish(): the kind of its source argument
  localProc,       \* publish()/subscribe(): const process / result
  localTemp,       \* resolveMediaSourceToFilePath(): const tempPath
  stopLog,         \* cleanup steps begun by the accepted stop() call, in order
  stopDue,         \* cleanup steps whose resource was held when it was called
  last,            \* what the last step did: call, outcome, error, events, effects
  overlap,         \* the caller issues calls while another call is in flight
  adapter,         \* the backend adapter class that was constructed
  streams,         \* adapter: this.streams, a Map in insertion order
  remote,          \* adapter: what the remote server holds, per stream id
  generated,       \* adapter: how many ids generateId() has handed out
  alast,           \* adapter: what the last adapter call did
  maxConnections,  \* pool: this.maxConnections
  connections,     \* pool: this.connections, a Map in insertion order
  made,            \* pool: the connection objects the factories returned
  keepAliveTimer,  \* pool: this.keepAliveTimer is set
  cleanupTimer,    \* pool: this.cleanupTimer is set
  pending,         \* pool: getConnection calls suspended at await Promise.race
  lateFactories,   \* pool: whether factory() calls are followed after they
                   \* lost the race against the timeout
  abandoned,       \* pool: the factory() calls that lost the race against
                   \* the timeout: still running, or resolved with an object
  now,             \* pool: Date.now()
  plast,           \* pool: what the last pool step did
  reconnectOptions, \* reconnect: this.options
  attempts,        \* reconnect: this.attempts
  timer,           \* reconnect: this.timer: 0 = undefined, else the run whose
                   \* setTimeout it names
  runs,            \* reconnect: the reconnect() calls made so far
  rlast,           \* reconnect: what the last step of the driver did
  cacheOptions,    \* cache: options.maxSize and options.ttl
  lruCache,        \* cache: this.cache of LRUCache, a Map in insertion order
  clock,           \* cache: Date.now()
  recency,         \* cache: the resident keys, least recently set or got first
  clast,           \* cache: what the last cache call did
  queueOptions,    \* queue: options.maxSize and options.batchSize
  queue,           \* queue: this.queue
  processing,      \* queue: this.processing
  queueTimer,      \* queue: this.timer: 0 = undefined, else the loop whose
                   \* setTimeout it names
  loops,           \* queue: the process() loops started so far
  accepted,        \* queue: the items enqueue() accepted, in order
  handed,          \* queue: the items dequeueBatch() returned, in order
  wasCleared,      \* queue: clear() has been called
  qlast,           \* queue: what the last queue step did
  dlast            \* detector: what the last detectProtocol call returned

adapterVars == <<adapter, streams, remote, generated, alast>>
poolVars == <<maxConnections, connections, made, keepAliveTimer, cleanupTimer,
              pending, lateFactories, abandoned, now, plast>>

\* What a session never touches: the caller discipline and the other
\* components.
reconnectVars == <<reconnectOptions, attempts, timer, runs, rlast>>
cacheVars == <<cacheOptions, lruCache, clock, recency, clast>>
queueVars == <<queueOptions, queue, processing, queueTimer, loops, accepted,
               handed, wasCleared, qlast>>
detectVars == <<dlast>>
utilVars == <<reconnectVars, cacheVars, queueVars, detectVars>>
outside == <<overlap, adapterVars, poolVars, utilVars>>

sessionFields == <<kind, status, url, options, loop, io, eventListeners,
                   ffmpegProcess, tempFilePath, hlsPlaylistPath, hlsTempDir,
                   hlsProcess>>
sessionVars == <<outside, sessionFields>>
envVars == <<channel, ioListeners, procs, temps, protocolCache>>
frameVars == <<connectPc, publishPc, subscribePc, stopPc, previousStatus,
               source, localProc, localTemp, stopLog, stopDue>>
\* Everything a session owns or moves.
sessionState == <<sessionFields, envVars, frameVars, last>>
vars == <<sessionVars, envVars, frameVars, last>>

None == "undefined"

\* this.url before connect(): no url
NoUrl == <<"<undefined>">>

\* Bound on the number of external processes the model lets a session spawn.
MaxSpawn == 3

(***************************************************************************)
(* URLs are sequences of fragments, so that startsWith and includes of the *)
(* detector are computed and not assumed.                                  *)
(***************************************************************************)
RtmpUrl == <<"rtmp://", "host", "/live/", "key">>
UpperRtmpUrl == <<"RTMP://", "host", "/live/", "key">>
HlsUrl == <<"http://", "host", "/live/", "key", ".m3u8">>
FlvUrl == <<"http://", "host", "/live/", "key", ".flv">>
WebrtcUrl == <<"https://", "host", "/webrtc/", "key">>
DashUrl == <<"http://", "host", "/live/", "key", ".mpd">>
PlainUrl == <<"http://", "host", "/live/", "key">>
EmptyUrl == <<>>

SessionUrls == {RtmpUrl, HlsUrl, FlvUrl, WebrtcUrl, DashUrl, EmptyUrl}

\* String.prototype.toLowerCase on one fragment.
LowerFragment(f) ==
  CASE f = "RTMP://" -> "rtmp://"
    [] f = "WS://" -> "ws://"
    [] f = "/HLS/" -> "/hls/"
    [] f = ".M3U8" -> ".m3u8"
    [] f = ".FLV" -> ".flv"
    [] f = "HTTP://" -> "http://"
    [] f = "WSS://" -> "wss://"
    [] f = "/WEBRTC/" -> "/webrtc/"
    [] f = "/DASH/" -> "/dash/"
    [] f = ".MPD" -> ".mpd"
    [] f = "HOST" -> "host"
    [] OTHER -> f

toLowerCase(u) == [i \in 1..Len(u) |-> LowerFragment(u[i])]

startsWith(u, f) == Len(u) > 0 /\ u[1] = f

includes(u, f) == \E i \in 1..Len(u) : u[i] = f

\* The ordered first-match rules of detectProtocol.
DetectRules(u) ==
  LET lowerUrl == toLowerCase(u) IN
  IF startsWith(lowerUrl, "rtmp://") THEN "rtmp"
  ELSE IF includes(lowerUrl, ".m3u8") \/ includes(lowerUrl, "/hls/") THEN "hls"
  ELSE IF includes(lowerUrl, ".flv") \/ includes(lowerUrl, "/flv/") THEN "flv"
  ELSE IF startsWith(lowerUrl, "ws://") \/ startsWith(lowerUrl, "wss://")
          \/ includes(lowerUrl, "/webrtc/") THEN "webrtc"
  ELSE IF includes(lowerUrl, ".mpd") \/ includes(lowerUrl, "/dash/") THEN "dash"
  ELSE "rtmp"

\* protocolCache.size < 1000
ProtocolCacheCap == 1000

\* protocolCache.get(url)
CacheGet(cache, u) ==
  IF \E e \in cache : e.url = u
  THEN (CHOOSE e \in cache : e.url = u).protocol
  ELSE None

\* detectProtocol(url): the cached tag when present, else the rules.
detectProtocol(cache, u) ==
  IF CacheGet(cache, u) # None THEN CacheGet(cache, u) ELSE DetectRules(u)

\* A memo map that takes every new url.
CacheAfterDetectUncapped(cache, u) ==
  IF CacheGet(cache, u) # None THEN cache
  ELSE cache \cup {[url |-> u, protocol |-> DetectRules(u)]}

\* The memo map after detectProtocol(url).
CacheAfterDetect(cache, u) ==
  IF CacheGet(cache, u) # None THEN cache
  ELSE IF Cardinality(cache) < ProtocolCacheCap
       THEN cache \cup {[url |-> u, protocol |-> DetectRules(u)]}
       ELSE cache

(***************************************************************************)
(* Status types and the transition tables of the status utilities.         *)
(***************************************************************************)
PublisherStatus == {"idle", "connecting", "connected", "publishing",
                    "stopped", "error"}

SubscriberStatus == {"idle", "connecting", "connected", "playing",
                     "buffering", "stopped", "error"}

PUBLISHER_STATUS_TRANSITIONS ==
  [s \in PublisherStatus |->
     CASE s = "idle" -> {"connecting"}
       [] s = "connecting" -> {"connected", "error"}
       [] s = "connected" -> {"publishing", "stopped", "error"}
       [] s = "publishing" -> {"stopped", "error"}
       [] s = "stopped" -> {"idle"}
       [] s = "error" -> {"idle", "stopped"}]

SUBSCRIBER_STATUS_TRANSITIONS ==
  [s \in SubscriberStatus |->
     CASE s = "idle" -> {"connecting"}
       [] s = "connecting" -> {"connected", "error"}
       [] s = "connected" -> {"playing", "stopped", "error"}
       [] s = "playing" -> {"buffering", "stopped", "error"}
       [] s = "buffering" -> {"playing", "stopped", "error"}
       [] s = "stopped" -> {"idle"}
       [] s = "error" -> {"idle", "stopped"}]

isValidPublisherTransition(current, next) ==
  current \in PublisherStatus /\ next \in PUBLISHER_STATUS_TRANSITIONS[current]

isValidSubscriberTransition(current, next) ==
  current \in SubscriberStatus /\ next \in SUBSCRIBER_STATUS_TRANSITIONS[current]

(***************************************************************************)
(* Errors, events and the record of the last step.                         *)
(***************************************************************************)
NoError == [type |-> "none", current |-> None, expected |-> None,
            cause |-> None]

\* new PublisherStateError(streamId, currentStatus, expectedStatus)
PublisherStateError(current, expected) ==
  [type |-> "PublisherStateError", current |-> current,
   expected |-> expected, cause |-> None]

\* new SubscriberStateError(streamId, currentStatus, expectedStatus)
SubscriberStateError(current, expected) ==
  [type |-> "SubscriberStateError", current |-> current,
   expected |-> expected, cause |-> None]

\* new Error(`推流器状态错误，当前状态: ${this.status}`): names the current status only
ConnectStateError(current) ==
  [type |-> "Error:state", current |-> current, expected |-> None,
   cause |-> None]

\* new ConnectionError(message, cause): wraps what cmd.spawn() threw
ConnectionError(cause) ==
  [type |-> "ConnectionError", current |-> None, expected |-> None,
   cause |-> cause]

\* any other thrown value, tagged by where it comes from
PlainError(tag) ==
  [type |-> tag, current |-> None, expected |-> None, cause |-> None]

Events == {"connecting", "connected", "publishing", "playing", "buffering",
           "disconnected", "error"}

\* emitEvent(event): the listeners that are invoked
emitEvent(listeners, e) == IF e \in listeners THEN <<e>> ELSE <<>>

\* What one step did: the method or event, whether it is the call, a
\* resumption after an await or an event from outside, how it ended, the
\* error thrown, the events delivered, the external actions begun, and the
\* values this.status held inside the step before its final one.
StepVia(op, phase, outcome, error, emits, acts, via) ==
  [op |-> op, phase |-> phase, outcome |-> outcome, error |-> error,
   emits |-> emits, acts |-> acts, via |-> via]

Step(op, phase, outcome, error, emits, acts) ==
  StepVia(op, phase, outcome, error, emits, acts, <<>>)

Outcomes == {"ok", "fail"}

(***************************************************************************)
(* Construction.                                                           *)
(***************************************************************************)
InitSessionFields ==
  /\ kind \in {"publisher", "subscriber"}
  /\ status = "idle"
  /\ url = NoUrl
  /\ options = None
  /\ loop = None
  /\ io \in {None, "server"}
  /\ channel = (IF io = "server" THEN "open" ELSE "none")
  /\ eventListeners \in {{}, Events}
  /\ ffmpegProcess = 0
  /\ tempFilePath = 0
  /\ hlsPlaylistPath = 0
  /\ hlsTempDir = 0
  /\ hlsProcess = 0
  /\ ioListeners = FALSE
  /\ procs = <<>>
  /\ temps = <<>>
  /\ connectPc = "none"
  /\ publishPc = "none"
  /\ subscribePc = "none"
  /\ stopPc = "none"
  /\ previousStatus = None
  /\ source = None
  /\ localProc = 0
  /\ localTemp = 0
  /\ stopLog = <<>>
  /\ stopDue = <<>>
  /\ last = Step("new", "call", "returned", NoError, <<>>, <<>>)

\* A session as constructed, in a module whose detector was not called yet.
InitSession == InitSessionFields /\ protocolCache = {}

\* No call of the session is in flight.
Quiet ==
  /\ connectPc = "none"
  /\ publishPc = "none"
  /\ subscribePc = "none"
  /\ stopPc = "none"

\* The caller may issue a call now.
CallAllowed == overlap \/ Quiet

(***************************************************************************)
(* connect(url, options) of both classes.                                  *)
(***************************************************************************)
ConnectOptions == {None, "loop"}

\* setupSocketIOListeners(): io.on("connection", ...) registers the handlers
\* or throws; without io it returns at once.
SetupOutcomes == IF io = None THEN {"ok"} ELSE Outcomes

\* The part of connect() between setupSocketIOListeners() and the 100 ms
\* timer, and its catch block when io.on throws.  status is assigned
\* before the try, in the call; after await this.io.listen() it is read no
\* more.
ConnectSetup(phase, out, ioNow) ==
  IF out = "ok"
  THEN /\ ioListeners' = (ioListeners \/ ioNow # None)
       /\ status' = (IF phase = "call" THEN "connecting" ELSE status)
       /\ connectPc' = "timer"
       /\ last' = Step("connect", phase, "pending", NoError,
                       emitEvent(eventListeners, "connecting"), <<>>)
  ELSE /\ ioListeners' = ioListeners
       /\ status' = "error"
       /\ connectPc' = "none"
       /\ last' = StepVia("connect", phase, "threw",
                          PlainError("Error:channel"),
                          emitEvent(eventListeners, "error"), <<>>,
                          IF phase = "call" THEN <<"connecting">> ELSE <<>>)

\* connect(): if (this.status !== "idle") throw
ConnectAllowed == status = "idle"

\* A connect() whose guard sits inside the try: the catch block marks the
\* session as failed and emits the error event.
ConnectRejectInsideTry ==
  /\ CallAllowed
  /\ ~ConnectAllowed
  /\ status' = "error"
  /\ last' = Step("connect", "call", "threw", ConnectStateError(status),
                  emitEvent(eventListeners, "error"), <<>>)
  /\ UNCHANGED <<outside, kind, url, options, loop, io, eventListeners,
                 ffmpegProcess, tempFilePath, hlsPlaylistPath, hlsTempDir,
                 hlsProcess>>
  /\ UNCHANGED <<envVars, frameVars>>

\* connect() called in a status other than idle: throws before any effect.
ConnectReject ==
  /\ CallAllowed
  /\ ~ConnectAllowed
  /\ last' = Step("connect", "call", "threw", ConnectStateError(status), <<>>, <<>>)
  /\ UNCHANGED <<sessionVars, envVars, frameVars>>

\* connect() from idle, up to its first await.
ConnectCall(u, opt) ==
  /\ CallAllowed
  /\ ConnectAllowed
  /\ url' = u
  /\ options' = (IF opt = None THEN options ELSE opt)
  /\ loop' = (IF kind = "publisher" /\ opt # None THEN "true" ELSE loop)
  /\ IF io = None
     THEN /\ io' = "server"
          /\ status' = "connecting"
          /\ connectPc' = "listen"
          /\ last' = Step("connect", "call", "pending", NoError, <<>>, <<>>)
          /\ UNCHANGED ioListeners
     ELSE /\ io' = io
          /\ \E out \in Outcomes : ConnectSetup("call", out, io)
  /\ UNCHANGED <<outside, kind, eventListeners, ffmpegProcess, tempFilePath,
                 hlsPlaylistPath, hlsTempDir, hlsProcess>>
  /\ UNCHANGED <<channel, procs, temps, protocolCache>>
  /\ UNCHANGED <<publishPc, subscribePc, stopPc, previousStatus, source,
                 localProc, localTemp, stopLog, stopDue>>

\* await this.io.listen() settles.
ConnectListenDone(listened) ==
  /\ connectPc = "listen"
  /\ IF listened = "ok"
     THEN /\ channel' = (IF channel = "none" THEN "open" ELSE channel)
          /\ \E out \in SetupOutcomes : ConnectSetup("resume", out, io)
     ELSE /\ channel' = channel
          /\ status' = "error"
          /\ connectPc' = "none"
          /\ ioListeners' = ioListeners
          /\ last' = Step("connect", "resume", "threw", PlainError("Error:listen"),
                          emitEvent(eventListeners, "error"), <<>>)
  /\ UNCHANGED <<outside, kind, url, options, loop, io, eventListeners, ffmpegProcess,
                 tempFilePath, hlsPlaylistPath, hlsTempDir, hlsProcess>>
  /\ UNCHANGED <<procs, temps, protocolCache>>
  /\ UNCHANGED <<publishPc, subscribePc, stopPc, previousStatus, source,
                 localProc, localTemp, stopLog, stopDue>>

\* The 100 ms timer of connect() fires.
ConnectTimerDone ==
  /\ connectPc = "timer"
  /\ status' = "connected"
  /\ connectPc' = "none"
  /\ last' = Step("connect", "resume", "returned", NoError,
                  emitEvent(eventListeners, "connected"), <<>>)
  /\ UNCHANGED <<outside, kind, url, options, loop, io, eventListeners, ffmpegProcess,
                 tempFilePath, hlsPlaylistPath, hlsTempDir, hlsProcess>>
  /\ UNCHANGED envVars
  /\ UNCHANGED <<publishPc, subscribePc, stopPc, previousStatus, source,
                 localProc, localTemp, stopLog, stopDue>>

(***************************************************************************)
(* External processes and the stop routine returned by publishWithFFmpeg,  *)
(* subscribeWithFFmpeg and transcodeToHLS.                                 *)
(***************************************************************************)
\* cmd.spawn() succeeded: a new running child
NewProc(role) ==
  [role |-> role, state |-> "running", signals |-> <<>>, stopPc |-> "idle",
   result |-> "none"]

\* child.kill(signal): the signal is delivered or the call throws
KillOutcomes == {"delivered", "throws"}

\* A stop routine without the catch around child.kill(15): the throw of
\* kill rejects the promise of the routine.
ProcStopBeginUncaught(ps, h, k) ==
  IF k = "throws"
  THEN [ps EXCEPT ![h].stopPc = "done", ![h].result = "rejected"]
  ELSE [ps EXCEPT ![h].signals = Append(@, 15), ![h].stopPc = "waiting"]

\* stop(): child.kill(15), then the wait for child.status begins; a throw of
\* kill is swallowed and ends the routine.
ProcStopBegin(ps, h, k) ==
  IF k = "throws"
  THEN [ps EXCEPT ![h].stopPc = "done", ![h].result = "resolved"]
  ELSE [ps EXCEPT ![h].signals = Append(@, 15), ![h].stopPc = "waiting"]

\* The child ends by itself (end of input, bad input, SIGTERM honoured).
ProcExit(h) ==
  /\ h \in 1..Len(procs)
  /\ procs[h].state = "running"
  /\ procs' = [procs EXCEPT ![h].state = "exited"]
  /\ last' = Step("process", "event", "exited", NoError, <<>>, <<>>)
  /\ UNCHANGED <<sessionVars, frameVars, channel, ioListeners, temps,
                 protocolCache>>

\* A stop routine that sends the force-kill signal although the child
\* exited in time.
ProcStopExitedKills(h) ==
  /\ h \in 1..Len(procs)
  /\ procs[h].stopPc = "waiting"
  /\ procs[h].state = "exited"
  /\ procs' = [procs EXCEPT ![h].signals = Append(@, 9),
                             ![h].stopPc = "done", ![h].result = "resolved"]
  /\ last' = Step("process.stop", "event", "returned", NoError, <<>>, <<>>)
  /\ UNCHANGED <<sessionVars, frameVars, channel, ioListeners, temps,
                 protocolCache>>

\* stop(): child.status resolved before the 2000 ms timer.
ProcStopExited(h) ==
  /\ h \in 1..Len(procs)
  /\ procs[h].stopPc = "waiting"
  /\ procs[h].state = "exited"
  /\ procs' = [procs EXCEPT ![h].stopPc = "done", ![h].result = "resolved"]
  /\ last' = Step("process.stop", "event", "returned", NoError, <<>>, <<>>)
  /\ UNCHANGED <<sessionVars, frameVars, channel, ioListeners, temps,
                 protocolCache>>

\* stop(): the 2000 ms timer fired first: child.kill(9), its throw swallowed.
ProcStopTimeout(h, k) ==
  /\ h \in 1..Len(procs)
  /\ procs[h].stopPc = "waiting"
  /\ procs[h].state = "running"
  /\ procs' = IF k = "throws"
              THEN [procs EXCEPT ![h].stopPc = "done",
                                 ![h].result = "resolved"]
              ELSE [procs EXCEPT ![h].signals = Append(@, 9),
                                 ![h].state = "exited",
                                 ![h].stopPc = "done",
                                 ![h].result = "resolved"]
  /\ last' = Step("process.stop", "event", "returned", NoError, <<>>, <<"kill9">>)
  /\ UNCHANGED <<sessionVars, frameVars, channel, ioListeners, temps,
                 protocolCache>>

\* stop(): child.status rejected before the timer: the same catch runs
\* child.kill(9), its throw swallowed.
ProcStopWaitRejected(h, k) ==
  /\ h \in 1..Len(procs)
  /\ procs[h].stopPc = "waiting"
  /\ procs' = IF k = "throws"
              THEN [procs EXCEPT ![h].stopPc = "done",
                                 ![h].result = "resolved"]
              ELSE [procs EXCEPT ![h].signals = Append(@, 9),
                                 ![h].state = "exited",
                                 ![h].stopPc = "done",
                                 ![h].result = "resolved"]
  /\ last' = Step("process.stop", "event", "returned", NoError, <<>>,
                  <<"waitRejected", "kill9">>)
  /\ UNCHANGED <<sessionVars, frameVars, channel, ioListeners, temps,
                 protocolCache>>

\* makeTempFile / makeTempDir succeeded: a new temp resource
NewTemp(k) == [kind |-> k, exists |-> TRUE, removes |-> 0]

\* remove(path): one more removal attempt; on success the path is gone
RemoveTemp(ts, t, out) ==
  [ts EXCEPT ![t].removes = @ + 1,
             ![t].exists = IF out = "ok" THEN FALSE ELSE @]

(***************************************************************************)
(* ServerPublisher.publish(source).                                        *)
(***************************************************************************)
Sources == {"path", "blob", "other"}

\* A catch block of publish() that rethrows without touching status.
PublishCatchKeepsStatus(phase, err, acts) ==
  /\ status' = (IF phase = "call" THEN "publishing" ELSE status)
  /\ publishPc' = "none"
  /\ last' = Step("publish", phase, "threw", err,
                  emitEvent(eventListeners, "error"), acts)

\* the catch block of publish()
PublishCatch(phase, err, acts) ==
  /\ status' = "error"
  /\ publishPc' = "none"
  /\ last' = StepVia("publish", phase, "threw", err,
                     emitEvent(eventListeners, "error"), acts,
                     IF phase = "call" THEN <<"publishing">> ELSE <<>>)

\* A publish() guard that also lets a publishing session through.
PublishAllowedWhilePublishing == status \in {"connected", "publishing"}

\* publish(): if (this.status !== "connected") throw
PublishAllowed == status = "connected"

\* A publish() whose guard sits inside the try: the catch block marks the
\* session as failed before the state error leaves the method.
PublishRejectMarksError ==
  /\ CallAllowed
  /\ kind = "publisher"
  /\ ~PublishAllowed
  /\ status' = "error"
  /\ last' = Step("publish", "call", "threw",
                  PublisherStateError(status, "connected"),
                  emitEvent(eventListeners, "error"), <<>>)
  /\ UNCHANGED <<outside, kind, url, options, loop, io, eventListeners,
                 ffmpegProcess, tempFilePath, hlsPlaylistPath, hlsTempDir,
                 hlsProcess>>
  /\ UNCHANGED <<envVars, frameVars>>

\* publish() outside connected: PublisherStateError before any effect.
PublishReject ==
  /\ CallAllowed
  /\ kind = "publisher"
  /\ ~PublishAllowed
  /\ last' = Step("publish", "call", "threw",
                  PublisherStateError(status, "connected"), <<>>, <<>>)
  /\ UNCHANGED <<sessionVars, envVars, frameVars>>

\* publish() from connected, up to await resolveMediaSourceToFilePath(source).
PublishCall(src) ==
  /\ CallAllowed
  /\ kind = "publisher"
  /\ PublishAllowed
  /\ IF url \in {NoUrl, EmptyUrl}
     THEN /\ last' = Step("publish", "call", "threw", PlainError("Error:noUrl"),
                          <<>>, <<>>)
          /\ UNCHANGED <<status, publishPc, source>>
     ELSE IF src = "other"
     THEN /\ PublishCatch("call", PlainError("Error:source"), <<>>)
          /\ UNCHANGED source
     ELSE /\ status' = "publishing"
          /\ source' = src
          /\ publishPc' = (IF src = "path" THEN "resolved" ELSE "makeTempFile")
          /\ last' = Step("publish", "call", "pending", NoError, <<>>, <<>>)
  /\ UNCHANGED <<outside, kind, url, options, loop, io, eventListeners, ffmpegProcess,
                 tempFilePath, hlsPlaylistPath, hlsTempDir, hlsProcess>>
  /\ UNCHANGED envVars
  /\ UNCHANGED <<connectPc, subscribePc, stopPc, previousStatus, localProc,
                 localTemp, stopLog, stopDue>>

\* resolveMediaSourceToFilePath: await makeTempFile(...) settles.
PublishMakeTempFile(out) ==
  /\ publishPc = "makeTempFile"
  /\ IF out = "ok"
     THEN /\ temps' = Append(temps, NewTemp("file"))
          /\ localTemp' = Len(temps) + 1
          /\ publishPc' = "writeFile"
          /\ last' = Step("publish", "resume", "pending", NoError, <<>>,
                          <<"makeTempFile">>)
          /\ UNCHANGED status
     ELSE /\ PublishCatch("resume", PlainError("Error:makeTempFile"), <<>>)
          /\ UNCHANGED <<temps, localTemp>>
  /\ UNCHANGED <<outside, kind, url, options, loop, io, eventListeners, ffmpegProcess,
                 tempFilePath, hlsPlaylistPath, hlsTempDir, hlsProcess>>
  /\ UNCHANGED <<channel, ioListeners, procs, protocolCache>>
  /\ UNCHANGED <<connectPc, subscribePc, stopPc, previousStatus, source,
                 localProc, stopLog, stopDue>>

\* resolveMediaSourceToFilePath: blob.arrayBuffer() and writeFile settle;
\* this.tempFilePath is assigned only after the write succeeded.
PublishWriteFile(out) ==
  /\ publishPc = "writeFile"
  /\ IF out = "ok"
     THEN /\ tempFilePath' = localTemp
          /\ publishPc' = "resolved"
          /\ last' = Step("publish", "resume", "pending", NoError, <<>>, <<"writeFile">>)
          /\ UNCHANGED status
     ELSE /\ PublishCatch("resume", PlainError("Error:writeFile"), <<>>)
          /\ UNCHANGED tempFilePath
  /\ UNCHANGED <<outside, kind, url, options, loop, io, eventListeners, ffmpegProcess,
                 hlsPlaylistPath, hlsTempDir, hlsProcess>>
  /\ UNCHANGED envVars
  /\ UNCHANGED <<connectPc, subscribePc, stopPc, previousStatus, source,
                 localProc, localTemp, stopLog, stopDue>>

\* namespace.emit(...) on the control channel returns or throws; without io
\* nothing is sent.
NotifyOutcomes == IF io = None THEN {"ok"} ELSE Outcomes

\* The file path is known: the start notification, detectProtocol(this.url)
\* and the protocol branch up to its first await.
PublishResolved ==
  /\ publishPc = "resolved"
  /\ Len(procs) < MaxSpawn
  /\ \E n \in NotifyOutcomes :
       IF n = "fail"
       THEN /\ PublishCatch("resume", PlainError("Error:channel"), <<>>)
            /\ UNCHANGED <<procs, protocolCache, localProc>>
       ELSE /\ protocolCache' = CacheAfterDetect(protocolCache, url)
            /\ LET protocol == detectProtocol(protocolCache, url) IN
               IF protocol \in {"rtmp", "flv"}
               THEN \E spawned \in Outcomes :
                      IF spawned = "ok"
                      THEN /\ procs' = Append(procs, NewProc("publish"))
                           /\ localProc' = Len(procs) + 1
                           /\ publishPc' = "publishWithFFmpeg"
                           /\ last' = Step("publish", "resume", "pending", NoError,
                                           <<>>, <<"spawn">>)
                           /\ UNCHANGED status
                      ELSE /\ PublishCatch("resume", ConnectionError("spawn"), <<"spawnFailed">>)
                           /\ UNCHANGED <<procs, localProc>>
               ELSE IF protocol = "hls"
               THEN /\ publishPc' = "makeTempDir"
                    /\ last' = Step("publish", "resume", "pending", NoError, <<>>, <<>>)
                    /\ UNCHANGED <<status, procs, localProc>>
               ELSE IF protocol = "webrtc"
               THEN /\ PublishCatch("resume", PlainError("Error:webrtc"), <<>>)
                    /\ UNCHANGED <<procs, localProc>>
               ELSE /\ PublishCatch("resume", PlainError("Error:notImplemented"), <<>>)
                    /\ UNCHANGED <<procs, localProc>>
  /\ UNCHANGED <<outside, kind, url, options, loop, io, eventListeners, ffmpegProcess,
                 tempFilePath, hlsPlaylistPath, hlsTempDir, hlsProcess>>
  /\ UNCHANGED <<channel, ioListeners, temps>>
  /\ UNCHANGED <<connectPc, subscribePc, stopPc, previousStatus, source,
                 localTemp, stopLog, stopDue>>

\* await publishWithFFmpeg(...) resumes: the handle is stored.
PublishSpawned ==
  /\ publishPc = "publishWithFFmpeg"
  /\ ffmpegProcess' = localProc
  /\ publishPc' = "none"
  /\ last' = Step("publish", "resume", "returned", NoError,
                  emitEvent(eventListeners, "publishing"), <<>>)
  /\ UNCHANGED <<outside, kind, status, url, options, loop, io, eventListeners,
                 tempFilePath, hlsPlaylistPath, hlsTempDir, hlsProcess>>
  /\ UNCHANGED envVars
  /\ UNCHANGED <<connectPc, subscribePc, stopPc, previousStatus, source,
                 localProc, localTemp, stopLog, stopDue>>

\* this.hlsTempDir = await makeTempDir(...) settles, then transcodeToHLS
\* spawns (or fails to spawn) the transcoder.
PublishMakeTempDir(out) ==
  /\ publishPc = "makeTempDir"
  /\ Len(procs) < MaxSpawn
  /\ IF out = "fail"
     THEN /\ PublishCatch("resume", PlainError("Error:makeTempDir"), <<>>)
          /\ UNCHANGED <<temps, hlsTempDir, localTemp, procs, localProc>>
     ELSE /\ temps' = Append(temps, NewTemp("dir"))
          /\ hlsTempDir' = Len(temps) + 1
          /\ localTemp' = Len(temps) + 1
          /\ \E spawned \in Outcomes :
               IF spawned = "ok"
               THEN /\ procs' = Append(procs, NewProc("hls"))
                    /\ localProc' = Len(procs) + 1
                    /\ publishPc' = "transcodeToHLS"
                    /\ last' = Step("publish", "resume", "pending", NoError, <<>>,
                                    <<"makeTempDir", "spawn">>)
                    /\ UNCHANGED status
               ELSE /\ PublishCatch("resume", ConnectionError("spawn"),
                                 <<"makeTempDir", "spawnFailed">>)
                    /\ UNCHANGED <<procs, localProc>>
  /\ UNCHANGED <<outside, kind, url, options, loop, io, eventListeners, ffmpegProcess,
                 tempFilePath, hlsPlaylistPath, hlsProcess>>
  /\ UNCHANGED <<channel, ioListeners, protocolCache>>
  /\ UNCHANGED <<connectPc, subscribePc, stopPc, previousStatus, source,
                 stopLog, stopDue>>

\* await transcodeToHLS(...) resumes: playlist path and handle are stored.
PublishHlsSpawned ==
  /\ publishPc = "transcodeToHLS"
  /\ hlsPlaylistPath' = localTemp
  /\ hlsProcess' = localProc
  /\ publishPc' = "none"
  /\ last' = Step("publish", "resume", "returned", NoError,
                  emitEvent(eventListeners, "publishing"), <<>>)
  /\ UNCHANGED <<outside, kind, status, url, options, loop, io, eventListeners,
                 ffmpegProcess, tempFilePath, hlsTempDir>>
  /\ UNCHANGED envVars
  /\ UNCHANGED <<connectPc, subscribePc, stopPc, previousStatus, source,
                 localProc, localTemp, stopLog, stopDue>>

(***************************************************************************)
(* ServerPublisher.stop().                                                 *)
(***************************************************************************)
\* The first cleanup step at or after `from` whose field is set:
\* 2 hlsProcess, 3 hlsTempDir, 4 ffmpegProcess, 5 tempFilePath, 6 the tail.
PubStopNext(from) ==
  IF from <= 2 /\ hlsProcess # 0 THEN 2
  ELSE IF from <= 3 /\ hlsTempDir # 0 THEN 3
  ELSE IF from <= 4 /\ ffmpegProcess # 0 THEN 4
  ELSE IF from <= 5 /\ tempFilePath # 0 THEN 5
  ELSE 6

\* The cleanup steps of stop() whose resource the session holds, in the
\* order of the method body.
PubStopDue ==
  (IF io # None THEN <<"closeChannel">> ELSE <<>>)
  \o (IF hlsProcess # 0 THEN <<"stopHls">> ELSE <<>>)
  \o (IF hlsTempDir # 0 THEN <<"removeHlsDir">> ELSE <<>>)
  \o (IF ffmpegProcess # 0 THEN <<"stopPrimary">> ELSE <<>>)
  \o (IF tempFilePath # 0 THEN <<"removeTempFile">> ELSE <<>>)
  \o <<"detachListeners">>

\* Run stop() from step `from` up to its next await, or to its end.
PubStopEnter(phase, from, log, acts) ==
  LET s == PubStopNext(from) IN
  IF s = 2
  THEN /\ \E k \in KillOutcomes : procs' = ProcStopBegin(procs, hlsProcess, k)
       /\ stopPc' = "hlsStop"
       /\ stopLog' = Append(log, "stopHls")
       /\ eventListeners' = eventListeners
       /\ last' = Step("stop", phase, "pending", NoError, <<>>,
                       acts \o <<"stopHls">>)
  ELSE IF s = 3
  THEN /\ procs' = procs
       /\ stopPc' = "hlsRemove"
       /\ stopLog' = Append(log, "removeHlsDir")
       /\ eventListeners' = eventListeners
       /\ last' = Step("stop", phase, "pending", NoError, <<>>,
                       acts \o <<"removeHlsDir">>)
  ELSE IF s = 4
  THEN /\ \E k \in KillOutcomes :
            procs' = ProcStopBegin(procs, ffmpegProcess, k)
       /\ stopPc' = "ffmpegStop"
       /\ stopLog' = Append(log, "stopPrimary")
       /\ eventListeners' = eventListeners
       /\ last' = Step("stop", phase, "pending", NoError, <<>>,
                       acts \o <<"stopPrimary">>)
  ELSE IF s = 5
  THEN /\ procs' = procs
       /\ stopPc' = "tempRemove"
       /\ stopLog' = Append(log, "removeTempFile")
       /\ eventListeners' = eventListeners
       /\ last' = Step("stop", phase, "pending", NoError, <<>>,
                       acts \o <<"removeTempFile">>)
  ELSE /\ procs' = procs
       /\ stopPc' = "none"
       /\ stopLog' = Append(log, "detachListeners")
       /\ eventListeners' = {}
       /\ last' = Step("stop", phase, "returned", NoError,
                       emitEvent({}, "disconnected"),
                       acts \o <<"detachListeners">>)

\* stop(): if (this.status === "idle" || this.status === "stopped") return
StopReturnsAtOnce == status \in {"idle", "stopped"}

\* stop() in idle or stopped returns at once (both classes).
StopNoop ==
  /\ CallAllowed
  /\ StopReturnsAtOnce
  /\ last' = Step("stop", "call", "returned", NoError, <<>>, <<>>)
  /\ UNCHANGED <<sessionVars, envVars, frameVars>>

\* stop() from an active status, up to its first await.  A throw of the
\* stop notification is caught: status is put back and the error rethrown.
PubStopCall ==
  /\ CallAllowed
  /\ kind = "publisher"
  /\ stopPc = "none"
  /\ ~StopReturnsAtOnce
  /\ previousStatus' = status
  /\ IF io # None
     THEN \E n \in Outcomes :
            IF n = "fail"
            THEN /\ status' = status
                 /\ stopPc' = "none"
                 /\ stopLog' = <<>>
                 /\ last' = StepVia("stop", "call", "threw",
                                    PlainError("Error:channel"),
                                    emitEvent(eventListeners, "error"), <<>>,
                                    <<"stopped">>)
                 /\ UNCHANGED <<procs, eventListeners>>
            ELSE /\ status' = "stopped"
                 /\ stopPc' = "ioClose"
                 /\ stopLog' = <<"closeChannel">>
                 /\ last' = Step("stop", "call", "pending", NoError, <<>>,
                                 <<"notifyStop", "closeChannel">>)
                 /\ UNCHANGED <<procs, eventListeners>>
     ELSE /\ status' = "stopped"
          /\ PubStopEnter("call", 2, <<>>, <<>>)
  /\ UNCHANGED <<outside, kind, url, options, loop, io, ffmpegProcess, tempFilePath,
                 hlsPlaylistPath, hlsTempDir, hlsProcess>>
  /\ UNCHANGED <<channel, ioListeners, temps, protocolCache>>
  /\ stopDue' = PubStopDue
  /\ UNCHANGED <<connectPc, publishPc, subscribePc, source, localProc,
                 localTemp>>

CloseOutcomes == {"closed", "failed", "timeout"}

\* The race of this.io.close() against 2000 ms settles; this.io is cleared
\* whatever the outcome.
PubStopIoCloseDone(out) ==
  /\ kind = "publisher"
  /\ stopPc = "ioClose"
  /\ io' = None
  /\ channel' = (IF out = "closed" THEN "closed" ELSE channel)
  /\ PubStopEnter("resume", 2, stopLog, <<>>)
  /\ UNCHANGED <<outside, kind, status, url, options, loop, ffmpegProcess,
                 tempFilePath, hlsPlaylistPath, hlsTempDir, hlsProcess>>
  /\ UNCHANGED <<ioListeners, temps, protocolCache>>
  /\ UNCHANGED <<connectPc, publishPc, subscribePc, previousStatus, source,
                 localProc, localTemp, stopDue>>

WaitOutcomes == {"settled", "timeout"}

\* The awaited stop routine of process h has returned, or the 3000 ms timer
\* of the caller has fired while it is still waiting.
StopWaitOver(h, how) ==
  /\ h \in 1..Len(procs)
  /\ IF how = "settled" THEN procs[h].stopPc = "done"
                        ELSE procs[h].stopPc = "waiting"

\* A stop() that gives up on the HLS output once the transcoder did not stop
\* in time: the rest of the sequence is skipped up to the listeners.
PubStopHlsDoneSkipsOnTimeout(how) ==
  /\ kind = "publisher"
  /\ stopPc = "hlsStop"
  /\ StopWaitOver(hlsProcess, how)
  /\ hlsProcess' = 0
  /\ PubStopEnter("resume", IF how = "timeout" THEN 6 ELSE 3, stopLog, <<>>)
  /\ UNCHANGED <<outside, kind, status, url, options, loop, io, ffmpegProcess,
                 tempFilePath, hlsPlaylistPath, hlsTempDir>>
  /\ UNCHANGED <<channel, ioListeners, temps, protocolCache>>
  /\ UNCHANGED <<connectPc, publishPc, subscribePc, previousStatus, source,
                 localProc, localTemp, stopDue>>

\* The race of this.hlsProcess.stop() against 3000 ms settles.
PubStopHlsDone(how) ==
  /\ kind = "publisher"
  /\ stopPc = "hlsStop"
  /\ StopWaitOver(hlsProcess, how)
  /\ hlsProcess' = 0
  /\ PubStopEnter("resume", 3, stopLog, <<>>)
  /\ UNCHANGED <<outside, kind, status, url, options, loop, io, ffmpegProcess,
                 tempFilePath, hlsPlaylistPath, hlsTempDir>>
  /\ UNCHANGED <<channel, ioListeners, temps, protocolCache>>
  /\ UNCHANGED <<connectPc, publishPc, subscribePc, previousStatus, source,
                 localProc, localTemp, stopDue>>

\* await remove(this.hlsTempDir, {recursive}) settles; its failure is ignored.
PubStopHlsRemoveDone(out) ==
  /\ kind = "publisher"
  /\ stopPc = "hlsRemove"
  /\ temps' = RemoveTemp(temps, hlsTempDir, out)
  /\ hlsTempDir' = 0
  /\ hlsPlaylistPath' = 0
  /\ PubStopEnter("resume", 4, stopLog, <<>>)
  /\ UNCHANGED <<outside, kind, status, url, options, loop, io, ffmpegProcess,
                 tempFilePath, hlsProcess>>
  /\ UNCHANGED <<channel, ioListeners, protocolCache>>
  /\ UNCHANGED <<connectPc, publishPc, subscribePc, previousStatus, source,
                 localProc, localTemp, stopDue>>

\* The race of this.ffmpegProcess.stop() against 3000 ms settles.
PubStopFfmpegDone(how) ==
  /\ kind = "publisher"
  /\ stopPc = "ffmpegStop"
  /\ StopWaitOver(ffmpegProcess, how)
  /\ ffmpegProcess' = 0
  /\ PubStopEnter("resume", 5, stopLog, <<>>)
  /\ UNCHANGED <<outside, kind, status, url, options, loop, io, tempFilePath,
                 hlsPlaylistPath, hlsTempDir, hlsProcess>>
  /\ UNCHANGED <<channel, ioListeners, temps, protocolCache>>
  /\ UNCHANGED <<connectPc, publishPc, subscribePc, previousStatus, source,
                 localProc, localTemp, stopDue>>

\* await remove(this.tempFilePath) settles; its failure is ignored.
PubStopTempRemoveDone(out) ==
  /\ kind = "publisher"
  /\ stopPc = "tempRemove"
  /\ temps' = RemoveTemp(temps, tempFilePath, out)
  /\ tempFilePath' = 0
  /\ PubStopEnter("resume", 6, stopLog, <<>>)
  /\ UNCHANGED <<outside, kind, status, url, options, loop, io, ffmpegProcess,
                 hlsPlaylistPath, hlsTempDir, hlsProcess>>
  /\ UNCHANGED <<channel, ioListeners, protocolCache>>
  /\ UNCHANGED <<connectPc, publishPc, subscribePc, previousStatus, source,
                 localProc, localTemp, stopDue>>

(***************************************************************************)
(* ServerSubscriber.subscribe(), stop(), play(), pause().                  *)
(***************************************************************************)
\* the catch block of subscribe()
SubscribeCatch(phase, err, acts) ==
  /\ status' = "error"
  /\ subscribePc' = "none"
  /\ last' = StepVia("subscribe", phase, "threw", err,
                     emitEvent(eventListeners, "error"), acts,
                     IF phase = "call" THEN <<"playing">> ELSE <<>>)

\* subscribe(): if (this.status !== "connected") throw
SubscribeAllowed == status = "connected"

\* subscribe() outside connected: SubscriberStateError before any effect.
SubscribeReject ==
  /\ CallAllowed
  /\ kind = "subscriber"
  /\ ~SubscribeAllowed
  /\ last' = Step("subscribe", "call", "threw",
                  SubscriberStateError(status, "connected"), <<>>, <<>>)
  /\ UNCHANGED <<sessionVars, envVars, frameVars>>

\* subscribe() from connected, up to its first await; for hls and dash there
\* is no await and the url is returned at once.
SubscribeCall ==
  /\ CallAllowed
  /\ kind = "subscriber"
  /\ SubscribeAllowed
  /\ IF url \in {NoUrl, EmptyUrl}
     THEN /\ last' = Step("subscribe", "call", "threw", PlainError("Error:noUrl"),
                          <<>>, <<>>)
          /\ UNCHANGED <<status, subscribePc, protocolCache>>
     ELSE \E n \in NotifyOutcomes :
            IF n = "fail"
            THEN /\ SubscribeCatch("call", PlainError("Error:channel"), <<>>)
                 /\ UNCHANGED protocolCache
            ELSE /\ protocolCache' = CacheAfterDetect(protocolCache, url)
                 /\ LET protocol == detectProtocol(protocolCache, url) IN
                    IF protocol \in {"rtmp", "flv"}
                    THEN /\ status' = "playing"
                         /\ subscribePc' = "makeTempFile"
                         /\ last' = Step("subscribe", "call", "pending", NoError,
                                         <<>>, <<>>)
                    ELSE IF protocol \in {"hls", "dash"}
                    THEN /\ status' = "playing"
                         /\ subscribePc' = "none"
                         /\ last' = Step("subscribe", "call", "returned", NoError,
                                         emitEvent(eventListeners, "playing"),
                                         <<>>)
                    ELSE SubscribeCatch("call", PlainError("Error:webrtc"), <<>>)
  /\ UNCHANGED <<outside, kind, url, options, loop, io, eventListeners, ffmpegProcess,
                 tempFilePath, hlsPlaylistPath, hlsTempDir, hlsProcess>>
  /\ UNCHANGED <<channel, ioListeners, procs, temps>>
  /\ UNCHANGED <<connectPc, publishPc, stopPc, previousStatus, source,
                 localProc, localTemp, stopLog, stopDue>>

\* await import(...) and await makeTempFile({suffix: ".flv"}) settle, then
\* subscribeWithFFmpeg spawns (or fails to spawn) the recorder.
SubscribeMakeTempFile(out) ==
  /\ subscribePc = "makeTempFile"
  /\ Len(procs) < MaxSpawn
  /\ IF out = "fail"
     THEN /\ SubscribeCatch("resume", PlainError("Error:makeTempFile"), <<>>)
          /\ UNCHANGED <<temps, localTemp, procs, localProc>>
     ELSE /\ temps' = Append(temps, NewTemp("output"))
          /\ localTemp' = Len(temps) + 1
          /\ \E spawned \in Outcomes :
               IF spawned = "ok"
               THEN /\ procs' = Append(procs, NewProc("subscribe"))
                    /\ localProc' = Len(procs) + 1
                    /\ subscribePc' = "subscribeWithFFmpeg"
                    /\ last' = Step("subscribe", "resume", "pending", NoError, <<>>,
                                    <<"makeTempFile", "spawn">>)
                    /\ UNCHANGED status
               ELSE /\ SubscribeCatch("resume", ConnectionError("spawn"),
                                   <<"makeTempFile", "spawnFailed">>)
                    /\ UNCHANGED <<procs, localProc>>
  /\ UNCHANGED <<outside, kind, url, options, loop, io, eventListeners, ffmpegProcess,
                 tempFilePath, hlsPlaylistPath, hlsTempDir, hlsProcess>>
  /\ UNCHANGED <<channel, ioListeners, protocolCache>>
  /\ UNCHANGED <<connectPc, publishPc, stopPc, previousStatus, source,
                 stopLog, stopDue>>

\* await subscribeWithFFmpeg(...) resumes: the handle is stored.
SubscribeSpawned ==
  /\ subscribePc = "subscribeWithFFmpeg"
  /\ ffmpegProcess' = localProc
  /\ subscribePc' = "none"
  /\ last' = Step("subscribe", "resume", "returned", NoError,
                  emitEvent(eventListeners, "playing"), <<>>)
  /\ UNCHANGED <<outside, kind, status, url, options, loop, io, eventListeners,
                 tempFilePath, hlsPlaylistPath, hlsTempDir, hlsProcess>>
  /\ UNCHANGED envVars
  /\ UNCHANGED <<connectPc, publishPc, stopPc, previousStatus, source,
                 localProc, localTemp, stopLog, stopDue>>

\* The cleanup steps of the subscriber's stop(), in the order of its body.
SubStopDue ==
  (IF ffmpegProcess # 0 THEN <<"stopPrimary">> ELSE <<>>)
  \o <<"detachListeners">>

\* The end of the subscriber's stop(): the stop notification (whose throw is
\* caught: status is put back to prev and the error rethrown), then
\* removeAllListeners() and the disconnected event.
SubStopTail(phase, prev, st, log) ==
  \E n \in NotifyOutcomes :
    IF n = "fail"
    THEN /\ status' = prev
         /\ stopPc' = "none"
         /\ stopLog' = log
         /\ eventListeners' = eventListeners
         /\ last' = StepVia("stop", phase, "threw",
                            PlainError("Error:channel"),
                            emitEvent(eventListeners, "error"), <<>>,
                            IF phase = "call" THEN <<"stopped">> ELSE <<>>)
    ELSE /\ status' = st
         /\ stopPc' = "none"
         /\ stopLog' = Append(log, "detachListeners")
         /\ eventListeners' = {}
         /\ last' = Step("stop", phase, "returned", NoError,
                         emitEvent({}, "disconnected"),
                         IF io = None THEN <<"detachListeners">>
                         ELSE <<"notifyStop", "detachListeners">>)

\* stop() from an active status, up to await this.ffmpegProcess.stop(), or
\* to its end when there is no process.
SubStopCall ==
  /\ CallAllowed
  /\ kind = "subscriber"
  /\ stopPc = "none"
  /\ ~StopReturnsAtOnce
  /\ previousStatus' = status
  /\ IF ffmpegProcess # 0
     THEN /\ \E k \in KillOutcomes :
               procs' = ProcStopBegin(procs, ffmpegProcess, k)
          /\ status' = "stopped"
          /\ stopPc' = "ffmpegStop"
          /\ stopLog' = <<"stopPrimary">>
          /\ last' = Step("stop", "call", "pending", NoError, <<>>, <<"stopPrimary">>)
          /\ UNCHANGED eventListeners
     ELSE /\ procs' = procs
          /\ SubStopTail("call", status, "stopped", <<>>)
  /\ UNCHANGED <<outside, kind, url, options, loop, io, ffmpegProcess, tempFilePath,
                 hlsPlaylistPath, hlsTempDir, hlsProcess>>
  /\ UNCHANGED <<channel, ioListeners, temps, protocolCache>>
  /\ stopDue' = SubStopDue
  /\ UNCHANGED <<connectPc, publishPc, subscribePc, source, localProc,
                 localTemp>>

\* await this.ffmpegProcess.stop() returns (no timer races it).
SubStopFfmpegDone ==
  /\ kind = "subscriber"
  /\ stopPc = "ffmpegStop"
  /\ StopWaitOver(ffmpegProcess, "settled")
  /\ ffmpegProcess' = 0
  /\ SubStopTail("resume", previousStatus, status, stopLog)
  /\ UNCHANGED <<outside, kind, url, options, loop, io, tempFilePath,
                 hlsPlaylistPath, hlsTempDir, hlsProcess>>
  /\ UNCHANGED envVars
  /\ UNCHANGED <<connectPc, publishPc, subscribePc, previousStatus, source,
                 localProc, localTemp, stopDue>>

\* play(): nothing when playing, an Error unless connected, else playing; the
\* play notification is outside any try, so its throw leaves status playing.
Play ==
  /\ CallAllowed
  /\ kind = "subscriber"
  /\ IF status = "playing"
     THEN /\ last' = Step("play", "call", "returned", NoError, <<>>, <<>>)
          /\ UNCHANGED status
     ELSE IF status # "connected"
     THEN /\ last' = Step("play", "call", "threw",
                          [type |-> "Error:notConnected", current |-> status,
                           expected |-> None, cause |-> None], <<>>, <<>>)
          /\ UNCHANGED status
     ELSE /\ status' = "playing"
          /\ \E n \in NotifyOutcomes :
               last' = IF n = "fail"
                       THEN Step("play", "call", "threw", PlainError("Error:channel"),
                                 <<>>, <<>>)
                       ELSE Step("play", "call", "returned", NoError,
                                 emitEvent(eventListeners, "playing"), <<>>)
  /\ UNCHANGED <<outside, kind, url, options, loop, io, eventListeners, ffmpegProcess,
                 tempFilePath, hlsPlaylistPath, hlsTempDir, hlsProcess>>
  /\ UNCHANGED <<envVars, frameVars>>

\* pause(): nothing unless playing, else buffering.
Pause ==
  /\ CallAllowed
  /\ kind = "subscriber"
  /\ IF status # "playing"
     THEN /\ last' = Step("pause", "call", "returned", NoError, <<>>, <<>>)
          /\ UNCHANGED status
     ELSE /\ status' = "buffering"
          /\ \E n \in NotifyOutcomes :
               last' = IF n = "fail"
                       THEN Step("pause", "call", "threw", PlainError("Error:channel"),
                                 <<>>, <<>>)
                       ELSE Step("pause", "call", "returned", NoError,
                                 emitEvent(eventListeners, "buffering"), <<>>)
  /\ UNCHANGED <<outside, kind, url, options, loop, io, eventListeners, ffmpegProcess,
                 tempFilePath, hlsPlaylistPath, hlsTempDir, hlsProcess>>
  /\ UNCHANGED <<envVars, frameVars>>

(***************************************************************************)
(* Control-channel messages handled by setupSocketIOListeners().           *)
(***************************************************************************)
\* a client socket can reach the handlers
Reachable == ioListeners /\ channel = "open"

\* stream:<publish|subscribe>:<id>:ack
SocketAck ==
  /\ Reachable
  /\ last' = Step("message:ack", "event", "handled", NoError,
                  emitEvent(eventListeners, "connected"), <<>>)
  /\ UNCHANGED <<sessionVars, envVars, frameVars>>

\* stream:<publish|subscribe>:<id>:error: status is set to error whatever
\* it was.
SocketError ==
  /\ Reachable
  /\ status' = "error"
  /\ last' = Step("message:error", "event", "handled", NoError,
                  emitEvent(eventListeners, "error"), <<>>)
  /\ UNCHANGED <<outside, kind, url, options, loop, io, eventListeners, ffmpegProcess,
                 tempFilePath, hlsPlaylistPath, hlsTempDir, hlsProcess>>
  /\ UNCHANGED <<envVars, frameVars>>

(***************************************************************************)
(* Backend adapters: SRSAdapter, FFmpegAdapter, LiveKitAdapter (srs.ts)    *)
(* and NginxRtmpAdapter (nginx-rtmp.ts).  One adapter object is modelled;  *)
(* `adapter` says which class was constructed.  Stream ids are integers:   *)
(* a negative id is a name the caller chose (options.name), a positive id  *)
(* n is the n-th result of generateId().  Calls do not overlap.            *)
(***************************************************************************)
AdapterNames == {"srs", "ffmpeg", "nginx-rtmp", "livekit"}

\* The adapters that front a remote server.
Fronting == {"srs", "nginx-rtmp", "livekit"}

\* Bound on the number of ids generateId() hands out.
MaxGenerated == 1

\* options.name is absent
NoName == 0

\* The names callers pass as options.name.
CallerNames == {-1}

StreamIds == CallerNames \cup (1..MaxGenerated)

\* What the remote server holds for an id: nothing, a room without
\* participants (LiveKit only), or a stream that is being published.
RemoteStates == {"absent", "empty", "live"}

Reported(id) == remote[id] # "absent"

Min(a, b) == IF a < b THEN a ELSE b

\* The ids of S in the order the remote listing gives them.
RECURSIVE ListingOrder(_)
ListingOrder(S) ==
  IF S = {} THEN <<>>
  ELSE LET m == CHOOSE x \in S : \A y \in S : x <= y
       IN <<m>> \o ListingOrder(S \ {m})

\* The remote listing: the ids the remote reports.
Listing == ListingOrder({id \in StreamIds : Reported(id)})

StreamEntry(id, st, origin) == [id |-> id, status |-> st, origin |-> origin]

\* Map.keys()
Keys(ss) == {ss[i].id : i \in 1..Len(ss)}

\* Map.get(id): the entry, or nothing
MapGet(ss, id) == SelectSeq(ss, LAMBDA e : e.id = id)

\* Map.set(id, e): an existing key keeps its position
MapSet(ss, e) ==
  IF e.id \in Keys(ss)
  THEN [i \in 1..Len(ss) |-> IF ss[i].id = e.id THEN e ELSE ss[i]]
  ELSE Append(ss, e)

\* Map.delete(id)
MapDelete(ss, id) == SelectSeq(ss, LAMBDA e : e.id # id)

\* stream.status = st on the entry of id
SetStatus(ss, id, st) ==
  [i \in 1..Len(ss) |->
     IF ss[i].id = id THEN [ss[i] EXCEPT !.status = st] ELSE ss[i]]

\* Array.prototype.slice(start, end) for 0 <= start
slice(list, start, end) ==
  IF start >= Min(end, Len(list)) THEN <<>>
  ELSE SubSeq(list, start + 1, Min(end, Len(list)))

\* The (limit, offset) pairs callers pass: -1 stands for an absent option.
PageInputs == {<<-1, -1>>, <<0, 0>>, <<1, -1>>, <<1, 1>>}

\* options?.offset || 0 and options?.limit || list.length (srs, ffmpeg)
PageOr(list, limit, offset) ==
  LET o == IF offset <= 0 THEN 0 ELSE offset
      l == IF limit <= 0 THEN Len(list) ELSE limit
  IN slice(list, o, o + l)

\* options?.offset ?? 0 and options?.limit ?? list.length (nginx, livekit)
PageNullish(list, limit, offset) ==
  LET o == IF offset = -1 THEN 0 ELSE offset
      l == IF limit = -1 THEN Len(list) ELSE limit
  IN slice(list, o, o + l)

Page(list, limit, offset) ==
  IF adapter \in {"srs", "ffmpeg"} THEN PageOr(list, limit, offset)
  ELSE PageNullish(list, limit, offset)

\* (room.num_participants ?? 0) > 0 ? "publishing" : "idle"
RoomStatus(id) == IF remote[id] = "live" THEN "publishing" ELSE "idle"

\* NginxRtmpAdapter.syncStreamsFromStat over the names of the listing: a
\* known name becomes publishing, an unknown one is added as publishing.
RECURSIVE SyncNginx(_, _)
SyncNginx(ss, names) ==
  IF names = <<>> THEN ss
  ELSE LET n == Head(names) IN
       SyncNginx(IF n \in Keys(ss) THEN SetStatus(ss, n, "publishing")
                 ELSE Append(ss, StreamEntry(n, "publishing", "synced")),
                 Tail(names))

\* SRSAdapter.listStreams: an unknown stream of the listing is added as
\* publishing, a known one is left as it is.
RECURSIVE SyncSrs(_, _)
SyncSrs(ss, names) ==
  IF names = <<>> THEN ss
  ELSE LET n == Head(names) IN
       SyncSrs(IF n \in Keys(ss) THEN ss
               ELSE Append(ss, StreamEntry(n, "publishing", "synced")),
               Tail(names))

\* LiveKitAdapter.listStreams: every room of the listing is set, with the
\* status its participants give.
RECURSIVE SyncLiveKit(_, _)
SyncLiveKit(ss, names) ==
  IF names = <<>> THEN ss
  ELSE LET n == Head(names) IN
       SyncLiveKit(MapSet(ss, StreamEntry(n, RoomStatus(n), "synced")),
                   Tail(names))

\* What one adapter call did: the method, its id argument, whether the
\* remote read succeeded, whether the remote write succeeded, how the call
\* ended and what it returned (a sequence: the entry or nothing for
\* getStream, the page for listStreams); page holds the limit and offset
\* of a listStreams.
ACall(op, id, pulled, wrote, outcome, value) ==
  [op |-> op, id |-> id, pulled |-> pulled, wrote |-> wrote,
   outcome |-> outcome, value |-> value, page |-> <<>>]

InitAdapter ==
  /\ adapter \in AdapterNames
  /\ streams = <<>>
  /\ remote = [id \in StreamIds |-> "absent"]
  /\ generated = 0
  /\ alast = ACall("new", NoName, "none", "none", "returned", <<>>)

\* createStream: the id is options.name where the adapter uses it (nginx,
\* livekit) and a name was given, else a fresh generateId().
UsesName(name) == adapter \in {"nginx-rtmp", "livekit"} /\ name # NoName

CreatedId(name) == IF UsesName(name) THEN name ELSE generated + 1

\* createStream(options): LiveKit creates the room first and lets a failure
\* of that call propagate; every adapter then does this.streams.set(id, ..).
CreateStream(name, out) ==
  /\ UsesName(name) \/ generated < MaxGenerated
  /\ adapter = "livekit" \/ out = "ok"
  /\ LET id == CreatedId(name) IN
     /\ generated' = (IF UsesName(name) THEN generated ELSE generated + 1)
     /\ IF adapter = "livekit" /\ out = "fail"
        THEN /\ alast' = ACall("createStream", id, "none", "fail", "threw",
                               <<>>)
             /\ UNCHANGED <<streams, remote>>
        ELSE /\ streams' = MapSet(streams, StreamEntry(id, "idle", "created"))
             /\ remote' = (IF adapter = "livekit" /\ ~Reported(id)
                           THEN [remote EXCEPT ![id] = "empty"]
                           ELSE remote)
             /\ alast' = ACall("createStream", id, "none",
                               IF adapter = "livekit" THEN "ok" ELSE "none",
                               "returned",
                               <<StreamEntry(id, "idle", "created")>>)
  /\ UNCHANGED <<adapter, overlap, poolVars, sessionState,
                 utilVars>>

\* A deleteStream that lets the failure of the remote delete reach the
\* caller, before the local entry is removed.
DeleteResultPropagates(id, out) ==
  IF adapter \in {"ffmpeg", "nginx-rtmp"}
  THEN [streams |-> MapDelete(streams, id), remote |-> remote,
        wrote |-> "none", outcome |-> "returned"]
  ELSE IF adapter = "srs" /\ id \notin Keys(streams)
  THEN [streams |-> streams, remote |-> remote, wrote |-> "none",
        outcome |-> "returned"]
  ELSE IF out = "ok"
  THEN [streams |-> MapDelete(streams, id),
        remote |-> [remote EXCEPT ![id] = "absent"],
        wrote |-> "ok", outcome |-> "returned"]
  ELSE [streams |-> streams, remote |-> remote, wrote |-> "fail",
        outcome |-> "threw"]

\* deleteStream(id): ffmpeg and nginx only delete the local entry; srs
\* returns when getStream(id) finds no local entry; srs and livekit attempt
\* the remote delete inside a try with an empty catch, then delete locally.
DeleteResult(id, out) ==
  IF adapter \in {"ffmpeg", "nginx-rtmp"}
  THEN [streams |-> MapDelete(streams, id), remote |-> remote,
        wrote |-> "none", outcome |-> "returned"]
  ELSE IF adapter = "srs" /\ id \notin Keys(streams)
  THEN [streams |-> streams, remote |-> remote, wrote |-> "none",
        outcome |-> "returned"]
  ELSE [streams |-> MapDelete(streams, id),
        remote |-> IF out = "ok" THEN [remote EXCEPT ![id] = "absent"]
                   ELSE remote,
        wrote |-> out, outcome |-> "returned"]

DeleteStream(id, out) ==
  /\ LET r == DeleteResult(id, out) IN
     /\ streams' = r.streams
     /\ remote' = r.remote
     /\ alast' = ACall("deleteStream", id, "none", r.wrote, r.outcome, <<>>)
  /\ UNCHANGED <<adapter, generated, overlap, poolVars, sessionState,
                 utilVars>>

\* A getStream whose remote read is outside any try.
GetResultPropagates(id, pull) ==
  IF adapter = "ffmpeg" \/ (adapter = "srs" /\ id \notin Keys(streams))
  THEN [streams |-> streams, pulled |-> "none", outcome |-> "returned",
        value |-> MapGet(streams, id)]
  ELSE IF pull = "fail"
  THEN [streams |-> streams, pulled |-> "fail", outcome |-> "threw",
        value |-> <<>>]
  ELSE LET after ==
             IF adapter = "srs"
             THEN IF Reported(id) THEN SetStatus(streams, id, "publishing")
                  ELSE streams
             ELSE IF adapter = "nginx-rtmp" THEN SyncNginx(streams, Listing)
             ELSE IF Reported(id)
             THEN MapSet(streams, StreamEntry(id, RoomStatus(id), "synced"))
             ELSE streams
       IN [streams |-> after, pulled |-> "ok", outcome |-> "returned",
           value |-> MapGet(after, id)]

\* getStream(id).  ffmpeg: the local entry.  srs: null without a remote
\* read when there is no local entry, else the listing is read and the
\* entry becomes publishing if the listing has it.  nginx: the stat listing
\* is merged.  livekit: ListRooms for this name; a room found replaces the
\* local entry.  A failed read is swallowed and the local entry returned.
GetResult(id, pull) ==
  IF adapter = "ffmpeg" \/ (adapter = "srs" /\ id \notin Keys(streams))
  THEN [streams |-> streams, pulled |-> "none", outcome |-> "returned",
        value |-> MapGet(streams, id)]
  ELSE IF pull = "fail"
  THEN [streams |-> streams, pulled |-> "fail", outcome |-> "returned",
        value |-> MapGet(streams, id)]
  ELSE LET after ==
             IF adapter = "srs"
             THEN IF Reported(id) THEN SetStatus(streams, id, "publishing")
                  ELSE streams
             ELSE IF adapter = "nginx-rtmp" THEN SyncNginx(streams, Listing)
             ELSE IF Reported(id)
             THEN MapSet(streams, StreamEntry(id, RoomStatus(id), "synced"))
             ELSE streams
       IN [streams |-> after, pulled |-> "ok", outcome |-> "returned",
           value |-> MapGet(after, id)]

GetStream(id, pull) ==
  /\ LET r == GetResult(id, pull) IN
     /\ streams' = r.streams
     /\ alast' = ACall("getStream", id, r.pulled, "none", r.outcome, r.value)
  /\ UNCHANGED <<adapter, remote, generated, overlap, poolVars, sessionState,
                 utilVars>>

\* listStreams(options): the listing is merged (srs adds unknown streams,
\* nginx also marks known ones publishing, livekit sets every room), a
\* failed read is swallowed, and a page of the local map is returned.
ListResult(limit, offset, pull) ==
  IF adapter = "ffmpeg"
  THEN [streams |-> streams, pulled |-> "none",
        value |-> Page(streams, limit, offset)]
  ELSE IF pull = "fail"
  THEN [streams |-> streams, pulled |-> "fail",
        value |-> Page(streams, limit, offset)]
  ELSE LET after ==
             IF adapter = "srs" THEN SyncSrs(streams, Listing)
             ELSE IF adapter = "nginx-rtmp" THEN SyncNginx(streams, Listing)
             ELSE SyncLiveKit(streams, Listing)
       IN [streams |-> after, pulled |-> "ok",
           value |-> Page(after, limit, offset)]

ListStreams(limit, offset, pull) ==
  /\ LET r == ListResult(limit, offset, pull) IN
     /\ streams' = r.streams
     /\ alast' = [ACall("listStreams", NoName, r.pulled, "none", "returned",
                        r.value) EXCEPT !.page = <<limit, offset>>]
  /\ UNCHANGED <<adapter, remote, generated, overlap, poolVars, sessionState,
                 utilVars>>

\* The remote server changes by itself: a publisher connects to or leaves a
\* stream key, a room is created, emptied or closed.  Only ids a client can
\* know appear: caller names and ids already generated.
RemoteChange(id, to) ==
  /\ adapter \in Fronting
  /\ id \in CallerNames \/ id <= generated
  /\ to # remote[id]
  /\ adapter = "livekit" \/ to # "empty"
  /\ remote' = [remote EXCEPT ![id] = to]
  /\ alast' = ACall("remote", id, "none", "none", "changed", <<>>)
  /\ UNCHANGED <<adapter, streams, generated, overlap, poolVars, sessionState,
                 utilVars>>

NextAdapter ==
  \/ \E name \in CallerNames \cup {NoName}, out \in Outcomes :
       CreateStream(name, out)
  \/ \E id \in StreamIds, out \in Outcomes : DeleteStream(id, out)
  \/ \E id \in StreamIds, pull \in Outcomes : GetStream(id, pull)
  \/ \E page \in PageInputs, pull \in Outcomes :
       ListStreams(page[1], page[2], pull)
  \/ \E id \in StreamIds, to \in RemoteStates : RemoteChange(id, to)

(***************************************************************************)
(* ConnectionPool.  getConnection is cut at its one await (the race of     *)
(* factory() against the connect timeout); releaseConnection, stop and the *)
(* timer callbacks are synchronous.                                        *)
(***************************************************************************)
\* Bounds: getConnection calls suspended at once, connection objects made
\* when calls may overlap and when they may not, the clock, and the
\* factories followed after their timeout (any further one never settles).
MaxPending == 3
MaxMade == 3
MaxMadeSerial == 2
MaxClock == 2
MaxAbandoned == 1

\* The bound on connection objects of the specification at hand.
MadeBound == IF overlap THEN MaxMade ELSE MaxMadeSerial

\* Where late factories are not followed, a factory that lost the race is
\* taken never to settle.
AbandonedBound == IF lateFactories THEN MaxAbandoned ELSE 0

\* this.idleTimeout, in ticks of the clock
IdleTimeout == 1

\* new URL(url): scheme, host, port and path; a string that does not parse
\* has valid = FALSE and keeps its text in path.
PoolUrl(scheme, host, port, path) ==
  [valid |-> TRUE, scheme |-> scheme, host |-> host, port |-> port,
   path |-> path]

BadUrl == [valid |-> FALSE, scheme |-> "", host |-> "", port |-> "",
           path |-> "not a url"]

PoolUrls ==
  {PoolUrl("http:", "h1", "", "/a"), PoolUrl("http:", "h1", "80", "/b?q=1"),
   PoolUrl("http:", "h2", "", "/a"), BadUrl}

\* URL.host: the default port of the scheme is dropped
HostOf(u) ==
  [host |-> u.host,
   port |-> IF u.scheme = "http:" /\ u.port = "80" THEN "" ELSE u.port]

\* A connection id that keeps the path of the url.
getConnectionIdWithPath(u) ==
  IF u.valid
  THEN PoolUrl(u.scheme, HostOf(u).host, HostOf(u).port, u.path)
  ELSE u

\* getConnectionId(url): `${protocol}//${host}`, or the url itself when it
\* does not parse
getConnectionId(u) ==
  IF u.valid
  THEN PoolUrl(u.scheme, HostOf(u).host, HostOf(u).port, "")
  ELSE u

\* What a factory can return: an object with close(), one with destroy()
\* only, one with neither.
ConnKinds == {"close", "destroy", "plain"}

\* The caller's factory for a url: each target serves one kind of object.
FactoryKind(u) ==
  IF u.host = "h1" THEN "close" ELSE IF u.host = "h2" THEN "destroy"
  ELSE "plain"

\* this.connections.get(id)
PoolGet(conns, id) == SelectSeq(conns, LAMBDA e : e.id = id)

\* this.connections.set(id, e): an existing key keeps its position
PoolSet(conns, e) ==
  IF \E i \in 1..Len(conns) : conns[i].id = e.id
  THEN [i \in 1..Len(conns) |-> IF conns[i].id = e.id THEN e ELSE conns[i]]
  ELSE Append(conns, e)

\* closeConnection on every connection object of S: close() if present,
\* else destroy() if present; a throw is swallowed.
closeConnection(ms, S) ==
  [i \in 1..Len(ms) |->
     IF i \in S /\ ms[i].kind # "plain"
     THEN [ms[i] EXCEPT !.closes = @ + 1] ELSE ms[i]]

\* cleanupIdleConnections: the entries that are inactive and idle for more
\* than idleTimeout
IsIdle(e) == ~e.isActive /\ now - e.lastUsed > IdleTimeout

Swept(conns) == SelectSeq(conns, LAMBDA e : ~IsIdle(e))

SweptOut(conns) == {conns[i].conn : i \in {j \in 1..Len(conns) : IsIdle(conns[j])}}

\* A capacity test that admits one entry too many.
AtCapacityOffByOne(conns) == Len(conns) > maxConnections

\* this.connections.size >= this.maxConnections
AtCapacity(conns) == Len(conns) >= maxConnections

\* getStats()
getStats ==
  LET active == Cardinality({i \in 1..Len(connections) :
                               connections[i].isActive})
  IN [total |-> Len(connections), active |-> active,
      idle |-> Len(connections) - active]

\* The pool has been stopped: the constructor sets both timers and only
\* stop() clears them.
PoolStopped == ~keepAliveTimer /\ ~cleanupTimer

\* What one pool step did: the method, call or resumption, the url, how it
\* ended, the connection object returned (0: none), whether factory() was
\* invoked, and whether the call it belongs to began after stop().
PCall(op, phase, u, outcome, conn, factory) ==
  [op |-> op, phase |-> phase, url |-> u, outcome |-> outcome, conn |-> conn,
   factory |-> factory, late |-> PoolStopped]

\* constructor: both timers are started (keepAliveInterval and idleTimeout
\* are positive).
InitPool ==
  /\ maxConnections \in {1, 2}
  /\ connections = <<>>
  /\ made = <<>>
  /\ keepAliveTimer = TRUE
  /\ cleanupTimer = TRUE
  /\ pending = EmptyBag
  /\ abandoned = EmptyBag
  /\ now = 0
  /\ plast = PCall("new", "call", BadUrl, "returned", 0, FALSE)

\* The caller may issue a pool call now.
PoolCallAllowed == overlap \/ pending = EmptyBag

\* getConnection(url, factory) up to its return, its throw or its await.
GetConnectionCall(u) ==
  /\ PoolCallAllowed
  /\ LET id == getConnectionId(u)
         found == PoolGet(connections, id)
     IN IF found # <<>> /\ found[1].isActive
        THEN /\ connections' =
                  [i \in 1..Len(connections) |->
                     IF connections[i].id = id
                     THEN [connections[i] EXCEPT !.lastUsed = now]
                     ELSE connections[i]]
             /\ plast' = PCall("getConnection", "call", u, "returned",
                               found[1].conn, FALSE)
             /\ UNCHANGED <<made, pending>>
        ELSE LET sweep == AtCapacity(connections)
                 conns == IF sweep THEN Swept(connections) ELSE connections
                 ms == IF sweep
                       THEN closeConnection(made, SweptOut(connections))
                       ELSE made
             IN IF AtCapacity(conns)
                THEN /\ connections' = conns
                     /\ made' = ms
                     /\ plast' = PCall("getConnection", "call", u, "threw:full",
                                       0, FALSE)
                     /\ UNCHANGED pending
                ELSE /\ BagCardinality(pending) < MaxPending
                     /\ Len(made) + BagCardinality(pending) < MadeBound
                     /\ connections' = conns
                     /\ made' = ms
                     /\ pending' = pending (+)
                                     SetToBag({[url |-> u, id |-> id,
                                                late |-> PoolStopped]})
                     /\ plast' = PCall("getConnection", "call", u, "pending",
                                       0, TRUE)
  /\ UNCHANGED <<maxConnections, lateFactories, keepAliveTimer, cleanupTimer, abandoned, now>>
  /\ UNCHANGED <<overlap, adapterVars, sessionState, utilVars>>

SettleOutcomes == {"resolved", "rejected", "timeout"}

\* The race of factory() against the connect timeout settles for a
\* suspended call f: the connection is registered, or the wrapped error is
\* thrown.  After a timeout factory() is still running.
GetConnectionSettle(f, how) ==
  /\ BagIn(f, pending)
  /\ IF how = "resolved"
     THEN /\ made' = Append(made, [kind |-> FactoryKind(f.url), closes |-> 0])
          /\ connections' =
               PoolSet(connections,
                       [id |-> f.id, url |-> f.url, conn |-> Len(made) + 1,
                        lastUsed |-> now, isActive |-> TRUE])
          /\ plast' = [PCall("getConnection", "resume", f.url, "returned",
                             Len(made) + 1, FALSE) EXCEPT !.late = f.late]
     ELSE /\ plast' = [PCall("getConnection", "resume", f.url, "threw:create",
                             0, FALSE) EXCEPT !.late = f.late]
          /\ UNCHANGED <<made, connections>>
  /\ pending' = pending (-) SetToBag({f})
  /\ abandoned' = IF how = "timeout"
                     /\ BagCardinality(abandoned) < AbandonedBound
                  THEN abandoned (+) SetToBag({"running"})
                  ELSE abandoned
  /\ UNCHANGED <<maxConnections, lateFactories, keepAliveTimer, cleanupTimer, now>>
  /\ UNCHANGED <<overlap, adapterVars, sessionState, utilVars>>

\* A pool that registers the connection of a factory() that resolved after
\* the timeout.
FactoryLateRegisters(out) ==
  /\ BagIn("running", abandoned)
  /\ abandoned' = abandoned (-) SetToBag({"running"})
  /\ IF out = "ok"
     THEN /\ made' = Append(made, [kind |-> "plain", closes |-> 0])
          /\ connections' =
               PoolSet(connections,
                       [id |-> BadUrl, url |-> BadUrl, conn |-> Len(made) + 1,
                        lastUsed |-> now, isActive |-> TRUE])
          /\ plast' = PCall("factory", "event", BadUrl, "resolved",
                            Len(made) + 1, FALSE)
     ELSE /\ plast' = PCall("factory", "event", BadUrl, "rejected", 0, FALSE)
          /\ UNCHANGED <<made, connections>>
  /\ UNCHANGED <<maxConnections, lateFactories, keepAliveTimer, cleanupTimer,
                 pending, now>>
  /\ UNCHANGED <<overlap, adapterVars, sessionState, utilVars>>

\* A factory() settles after the connect timeout has fired: the race is
\* over and nothing waits for its result.  A connection object it resolved
\* with exists from then on, outside the pool.
FactoryLate(out) ==
  /\ BagIn("running", abandoned)
  /\ abandoned' = (abandoned (-) SetToBag({"running"}))
                  (+) (IF out = "ok" THEN SetToBag({"object"}) ELSE EmptyBag)
  /\ plast' = PCall("factory", "event", BadUrl,
                    IF out = "ok" THEN "resolved" ELSE "rejected", 0, FALSE)
  /\ UNCHANGED <<maxConnections, lateFactories, connections, made,
                 keepAliveTimer, cleanupTimer, pending, now>>
  /\ UNCHANGED <<overlap, adapterVars, sessionState, utilVars>>

\* releaseConnection(url, close)
ReleaseConnection(u, close) ==
  /\ PoolCallAllowed
  /\ LET id == getConnectionId(u)
         found == PoolGet(connections, id)
     IN IF found = <<>>
        THEN UNCHANGED <<connections, made>>
        ELSE IF close
        THEN /\ made' = closeConnection(made, {found[1].conn})
             /\ connections' = SelectSeq(connections, LAMBDA e : e.id # id)
        ELSE /\ connections' =
                  [i \in 1..Len(connections) |->
                     IF connections[i].id = id
                     THEN [connections[i] EXCEPT !.isActive = FALSE]
                     ELSE connections[i]]
             /\ UNCHANGED made
  /\ plast' = PCall("releaseConnection", "call", u, "returned", 0, FALSE)
  /\ UNCHANGED <<maxConnections, lateFactories, keepAliveTimer, cleanupTimer, pending,
                 abandoned, now>>
  /\ UNCHANGED <<overlap, adapterVars, sessionState, utilVars>>

\* The cleanup interval fires: cleanupIdleConnections().
CleanupTick ==
  /\ cleanupTimer
  /\ connections' = Swept(connections)
  /\ made' = closeConnection(made, SweptOut(connections))
  /\ plast' = PCall("cleanupTimer", "event", BadUrl, "returned", 0, FALSE)
  /\ UNCHANGED <<maxConnections, lateFactories, keepAliveTimer, cleanupTimer, pending,
                 abandoned, now>>
  /\ UNCHANGED <<overlap, adapterVars, sessionState, utilVars>>

\* The keep-alive interval fires: its callback is empty.
KeepAliveTick ==
  /\ keepAliveTimer
  /\ plast' = PCall("keepAliveTimer", "event", BadUrl, "returned", 0, FALSE)
  /\ UNCHANGED <<maxConnections, lateFactories, connections, made, keepAliveTimer,
                 cleanupTimer, pending, abandoned, now>>
  /\ UNCHANGED <<overlap, adapterVars, sessionState, utilVars>>

\* stop(): both intervals are cleared, every tracked connection is closed,
\* the map is cleared.
PoolStop ==
  /\ PoolCallAllowed
  /\ keepAliveTimer' = FALSE
  /\ cleanupTimer' = FALSE
  /\ made' = closeConnection(made, {connections[i].conn :
                                     i \in 1..Len(connections)})
  /\ connections' = <<>>
  /\ plast' = PCall("stop", "call", BadUrl, "returned", 0, FALSE)
  /\ UNCHANGED <<maxConnections, lateFactories, pending, abandoned, now>>
  /\ UNCHANGED <<overlap, adapterVars, sessionState, utilVars>>

\* Time passes.
PoolTick ==
  /\ now < MaxClock
  /\ now' = now + 1
  /\ plast' = PCall("clock", "event", BadUrl, "returned", 0, FALSE)
  /\ UNCHANGED <<maxConnections, lateFactories, connections, made, keepAliveTimer,
                 cleanupTimer, pending, abandoned>>
  /\ UNCHANGED <<overlap, adapterVars, sessionState, utilVars>>

NextPoolCalls ==
  \/ \E u \in PoolUrls : GetConnectionCall(u)
  \/ \E f \in BagToSet(pending), how \in SettleOutcomes :
       GetConnectionSettle(f, how)
  \/ \E u \in PoolUrls, close \in BOOLEAN : ReleaseConnection(u, close)
  \/ CleanupTick
  \/ KeepAliveTick
  \/ PoolStop
  \/ PoolTick

NextPool ==
  \/ NextPoolCalls
  \/ \E out \in Outcomes : FactoryLate(out)

(***************************************************************************)
(* ReconnectManager (src/src/utils/reconnect.ts).  reconnect() is cut at   *)
(* its two awaits: the backoff timer and connectFn(); the recursive call   *)
(* of its catch block continues the same run.                              *)
(***************************************************************************)
\* Bounds: reconnect() calls made one after the other and overlapping,
\* connectFn invocations of one run.
MaxRuns == 1
MaxRunsOverlap == 2
MaxCalls == 5

\* The options the driver is constructed with.
ReconnectConfigs ==
  {[initialDelay |-> 100, backoffMultiplier |-> 2, maxDelay |-> 1000],
   [initialDelay |-> 10, backoffMultiplier |-> 3, maxDelay |-> 100],
   [initialDelay |-> 50, backoffMultiplier |-> 1, maxDelay |-> 30]}

MaxAttemptsChoices == {0, 1, 2, 5}

\* Math.pow(b, e) for a natural e
RECURSIVE Pow(_, _)
Pow(b, e) == IF e = 0 THEN 1 ELSE b * Pow(b, e - 1)

\* A backoff that is not capped by maxDelay.
BackoffUncapped(n) ==
  reconnectOptions.initialDelay * Pow(reconnectOptions.backoffMultiplier, n)

\* Math.min(initialDelay * Math.pow(backoffMultiplier, attempts), maxDelay)
Backoff(n) ==
  Min(reconnectOptions.initialDelay
        * Pow(reconnectOptions.backoffMultiplier, n),
      reconnectOptions.maxDelay)

\* One reconnect() call: where it is suspended ("waiting" for its timer,
\* "connecting" in connectFn, "hung" on a timer that was cleared, "done"),
\* how it ended, and what it did: connectFn invocations, onFailed and
\* onReconnect invocations, the delays it awaited.  fresh: it began with
\* attempts = 0; halted: reset() or stop() was called while it was in
\* progress.
NewRun ==
  [pc |-> "start", result |-> "none", calls |-> 0, failed |-> 0,
   reconnected |-> 0, delays |-> <<>>, fresh |-> attempts = 0,
   halted |-> FALSE]

\* What one step of the driver did: the method or event, the run it
\* belongs to, whether it scheduled a timer, whether it invoked connectFn.
RCall(op, r, scheduled, invoked) ==
  [op |-> op, run |-> r, scheduled |-> scheduled, invoked |-> invoked]

InitReconnect ==
  /\ reconnectOptions \in
       {[maxAttempts |-> m, initialDelay |-> c.initialDelay,
         backoffMultiplier |-> c.backoffMultiplier, maxDelay |-> c.maxDelay] :
          m \in MaxAttemptsChoices, c \in ReconnectConfigs}
  /\ attempts = 0
  /\ timer = 0
  /\ runs = <<>>
  /\ rlast = RCall("new", 0, FALSE, FALSE)

\* A run is in progress.
InProgress(run) == run.pc \in {"waiting", "connecting"}

\* clearTimeout(this.timer): the run waiting for that timer never resumes.
ClearTimer(rs) ==
  [i \in 1..Len(rs) |->
     IF i = timer /\ rs[i].pc = "waiting" THEN [rs[i] EXCEPT !.pc = "hung"]
     ELSE rs[i]]

\* A reconnect() body that gives up one attempt early.
ReconnectBodyGivesUpEarly(rs, r, op) ==
  LET cleared == ClearTimer(rs) IN
  IF attempts + 1 >= reconnectOptions.maxAttempts
  THEN /\ runs' = [cleared EXCEPT ![r].pc = "done", ![r].result = "threw",
                                  ![r].failed = @ + 1]
       /\ rlast' = RCall(op, r, FALSE, FALSE)
       /\ UNCHANGED timer
  ELSE /\ runs' = [cleared EXCEPT ![r].pc = "waiting",
                                  ![r].delays = Append(@, Backoff(attempts))]
       /\ timer' = r
       /\ rlast' = RCall(op, r, TRUE, FALSE)

\* The body of reconnect() up to its first await, for run r of rs: the
\* previous timer is cleared; at maxAttempts onFailed is invoked and the
\* error thrown; else the backoff timer is set.
ReconnectBody(rs, r, op) ==
  LET cleared == ClearTimer(rs) IN
  IF attempts >= reconnectOptions.maxAttempts
  THEN /\ runs' = [cleared EXCEPT ![r].pc = "done", ![r].result = "threw",
                                  ![r].failed = @ + 1]
       /\ rlast' = RCall(op, r, FALSE, FALSE)
       /\ UNCHANGED timer
  ELSE /\ runs' = [cleared EXCEPT ![r].pc = "waiting",
                                  ![r].delays = Append(@, Backoff(attempts))]
       /\ timer' = r
       /\ rlast' = RCall(op, r, TRUE, FALSE)

\* The reconnect() calls made in one behaviour.
RunBound == IF overlap THEN MaxRunsOverlap ELSE MaxRuns

\* reconnect(connectFn), called from outside.
ReconnectCall ==
  /\ overlap \/ \A i \in 1..Len(runs) : ~InProgress(runs[i])
  /\ Len(runs) < RunBound
  /\ ReconnectBody(Append(runs, NewRun), Len(runs) + 1, "reconnect")
  /\ UNCHANGED <<reconnectOptions, attempts>>
  /\ UNCHANGED <<overlap, adapterVars, poolVars, sessionState, cacheVars,
                 queueVars, detectVars>>

\* The backoff timer of run r fires: this.attempts++ and connectFn() is
\* invoked.
ReconnectTimerFires(r) ==
  /\ r \in 1..Len(runs)
  /\ runs[r].pc = "waiting"
  /\ runs[r].calls < MaxCalls
  /\ attempts' = attempts + 1
  /\ runs' = [runs EXCEPT ![r].pc = "connecting", ![r].calls = @ + 1]
  /\ rlast' = RCall("timer", r, FALSE, TRUE)
  /\ UNCHANGED <<reconnectOptions, timer>>
  /\ UNCHANGED <<overlap, adapterVars, poolVars, sessionState, cacheVars,
                 queueVars, detectVars>>

\* connectFn() of run r settles: on success attempts is zeroed, onReconnect
\* is invoked and the result returned; on failure the catch block calls
\* this.reconnect(connectFn).
ReconnectSettles(r, out) ==
  /\ r \in 1..Len(runs)
  /\ runs[r].pc = "connecting"
  /\ IF out = "ok"
     THEN /\ attempts' = 0
          /\ runs' = [runs EXCEPT ![r].pc = "done", ![r].result = "returned",
                                  ![r].reconnected = @ + 1]
          /\ rlast' = RCall("connected", r, FALSE, FALSE)
          /\ UNCHANGED timer
     ELSE /\ ReconnectBody(runs, r, "retry")
          /\ UNCHANGED attempts
  /\ UNCHANGED reconnectOptions
  /\ UNCHANGED <<overlap, adapterVars, poolVars, sessionState, cacheVars,
                 queueVars, detectVars>>

\* reset(), and stop() which calls it: attempts is zeroed and the timer, if
\* set, is cleared and forgotten.
ReconnectReset(op) ==
  /\ attempts' = 0
  /\ timer' = 0
  /\ runs' = [i \in 1..Len(runs) |->
                IF InProgress(runs[i])
                THEN [ClearTimer(runs)[i] EXCEPT !.halted = TRUE]
                ELSE runs[i]]
  /\ rlast' = RCall(op, 0, FALSE, FALSE)
  /\ UNCHANGED reconnectOptions
  /\ UNCHANGED <<overlap, adapterVars, poolVars, sessionState, cacheVars,
                 queueVars, detectVars>>

NextReconnect ==
  \/ ReconnectCall
  \/ \E r \in 1..MaxRunsOverlap : ReconnectTimerFires(r)
  \/ \E r \in 1..MaxRunsOverlap, out \in Outcomes : ReconnectSettles(r, out)
  \/ \E op \in {"reset", "stop"} : ReconnectReset(op)

(***************************************************************************)
(* LRUCache (src/src/utils/cache.ts).  Every method is synchronous.  The   *)
(* accessCount of an entry is written and never read; it is left out.      *)
(***************************************************************************)
\* Bound on the cache clock.
MaxTime == 2

CacheKeys == {"a", "b", "c"}
CacheValues == {1, 2}

\* What get() returns for a miss.
Miss == 0

\* options: maxSize, and ttl with ttlGiven telling a number from undefined.
CacheConfigs ==
  {[maxSize |-> m, ttlGiven |-> t[1], ttl |-> t[2]] :
     m \in {0, 1, 2}, t \in {<<FALSE, 0>>, <<TRUE, 0>>, <<TRUE, 1>>}}

\* this.ttl && Date.now() - item.timestamp > this.ttl: undefined and 0 are
\* both falsy.
Expired(e) ==
  /\ cacheOptions.ttlGiven
  /\ cacheOptions.ttl # 0
  /\ clock - e.timestamp > cacheOptions.ttl

\* this.cache.get(key)
LruFind(k) == SelectSeq(lruCache, LAMBDA e : e.key = k)

\* this.cache.delete(key)
LruWithout(c, k) == SelectSeq(c, LAMBDA e : e.key # k)

\* The recency order after key k was set or got, and after keys were removed.
Touch(rec, k) == Append(SelectSeq(rec, LAMBDA x : x # k), k)

Forget(rec, gone) == SelectSeq(rec, LAMBDA x : x \notin gone)

\* What one cache call did: the method, its key, what it returned (Miss,
\* a value, a count, or 1 / 0 for has), the keys it removed, and whether
\* the key was resident when the call began.
CCall(op, k, value, removed) ==
  [op |-> op, key |-> k, value |-> value, removed |-> removed,
   hit |-> LruFind(k) # <<>>]

InitCache ==
  /\ cacheOptions \in CacheConfigs
  /\ lruCache = <<>>
  /\ clock = 0
  /\ recency = <<>>
  /\ clast = CCall("new", "a", Miss, {})

\* A get() that leaves the entry where it is in the Map.
LruGetInPlace(k) ==
  /\ LET found == LruFind(k) IN
     IF found = <<>>
     THEN /\ clast' = CCall("get", k, Miss, {})
          /\ UNCHANGED <<lruCache, recency>>
     ELSE IF Expired(found[1])
     THEN /\ lruCache' = LruWithout(lruCache, k)
          /\ recency' = Forget(recency, {k})
          /\ clast' = CCall("get", k, Miss, {k})
     ELSE /\ lruCache' = lruCache
          /\ recency' = Touch(recency, k)
          /\ clast' = CCall("get", k, found[1].value, {})
  /\ UNCHANGED <<cacheOptions, clock>>
  /\ UNCHANGED <<overlap, adapterVars, poolVars, sessionState, reconnectVars,
                 queueVars, detectVars>>

\* get(key): a miss; an expired entry is deleted and is a miss; else the
\* entry is moved to the end of the Map and its value returned.
LruGet(k) ==
  /\ LET found == LruFind(k) IN
     IF found = <<>>
     THEN /\ clast' = CCall("get", k, Miss, {})
          /\ UNCHANGED <<lruCache, recency>>
     ELSE IF Expired(found[1])
     THEN /\ lruCache' = LruWithout(lruCache, k)
          /\ recency' = Forget(recency, {k})
          /\ clast' = CCall("get", k, Miss, {k})
     ELSE /\ lruCache' = Append(LruWithout(lruCache, k), found[1])
          /\ recency' = Touch(recency, k)
          /\ clast' = CCall("get", k, found[1].value, {})
  /\ UNCHANGED <<cacheOptions, clock>>
  /\ UNCHANGED <<overlap, adapterVars, poolVars, sessionState, reconnectVars,
                 queueVars, detectVars>>

\* set(key, value): a present key is updated, restamped and moved to the
\* end; for a new key at size >= maxSize the first key of the Map is
\* deleted, if there is one, and the entry is appended.
LruSet(k, v) ==
  /\ LET entry == [key |-> k, value |-> v, timestamp |-> clock] IN
     IF LruFind(k) # <<>>
     THEN /\ lruCache' = Append(LruWithout(lruCache, k), entry)
          /\ recency' = Touch(recency, k)
          /\ clast' = CCall("set", k, Miss, {})
     ELSE LET gone == IF Len(lruCache) >= cacheOptions.maxSize /\ lruCache # <<>>
                      THEN {lruCache[1].key} ELSE {}
          IN /\ lruCache' = Append(SelectSeq(lruCache, LAMBDA e : e.key \notin gone),
                                entry)
             /\ recency' = Touch(Forget(recency, gone), k)
             /\ clast' = CCall("set", k, Miss, gone)
  /\ UNCHANGED <<cacheOptions, clock>>
  /\ UNCHANGED <<overlap, adapterVars, poolVars, sessionState, reconnectVars,
                 queueVars, detectVars>>

\* has(key): an expired entry is deleted and reported absent; the order of
\* the Map is not changed.
LruHas(k) ==
  /\ LET found == LruFind(k) IN
     IF found = <<>>
     THEN /\ clast' = CCall("has", k, 0, {})
          /\ UNCHANGED <<lruCache, recency>>
     ELSE IF Expired(found[1])
     THEN /\ lruCache' = LruWithout(lruCache, k)
          /\ recency' = Forget(recency, {k})
          /\ clast' = CCall("has", k, 0, {k})
     ELSE /\ clast' = CCall("has", k, 1, {})
          /\ UNCHANGED <<lruCache, recency>>
  /\ UNCHANGED <<cacheOptions, clock>>
  /\ UNCHANGED <<overlap, adapterVars, poolVars, sessionState, reconnectVars,
                 queueVars, detectVars>>

\* delete(key)
LruDelete(k) ==
  /\ lruCache' = LruWithout(lruCache, k)
  /\ recency' = Forget(recency, {k})
  /\ clast' = CCall("delete", k, Miss,
                    {e.key : e \in {lruCache[i] : i \in 1..Len(lruCache)}} \cap {k})
  /\ UNCHANGED <<cacheOptions, clock>>
  /\ UNCHANGED <<overlap, adapterVars, poolVars, sessionState, reconnectVars,
                 queueVars, detectVars>>

\* clear()
LruClear ==
  /\ lruCache' = <<>>
  /\ recency' = <<>>
  /\ clast' = CCall("clear", "a", Miss, {lruCache[i].key : i \in 1..Len(lruCache)})
  /\ UNCHANGED <<cacheOptions, clock>>
  /\ UNCHANGED <<overlap, adapterVars, poolVars, sessionState, reconnectVars,
                 queueVars, detectVars>>

\* cleanup(): 0 without a ttl; else every expired entry is deleted and
\* their number returned.
LruCleanup ==
  /\ LET gone == IF cacheOptions.ttlGiven /\ cacheOptions.ttl # 0
                 THEN {lruCache[i].key : i \in {j \in 1..Len(lruCache) :
                         clock - lruCache[j].timestamp > cacheOptions.ttl}}
                 ELSE {}
     IN /\ lruCache' = SelectSeq(lruCache, LAMBDA e : e.key \notin gone)
        /\ recency' = Forget(recency, gone)
        /\ clast' = CCall("cleanup", "a", Cardinality(gone), gone)
  /\ UNCHANGED <<cacheOptions, clock>>
  /\ UNCHANGED <<overlap, adapterVars, poolVars, sessionState, reconnectVars,
                 queueVars, detectVars>>

\* Time passes.
LruTick ==
  /\ clock < MaxTime
  /\ clock' = clock + 1
  /\ clast' = CCall("clock", "a", Miss, {})
  /\ UNCHANGED <<cacheOptions, lruCache, recency>>
  /\ UNCHANGED <<overlap, adapterVars, poolVars, sessionState, reconnectVars,
                 queueVars, detectVars>>

NextCache ==
  \/ \E k \in CacheKeys : LruGet(k)
  \/ \E k \in CacheKeys, v \in CacheValues : LruSet(k, v)
  \/ \E k \in CacheKeys : LruHas(k)
  \/ \E k \in CacheKeys : LruDelete(k)
  \/ LruClear
  \/ LruCleanup
  \/ LruTick

(***************************************************************************)
(* DataQueue (src/unnamed/part_008).  enqueue, dequeueBatch, clear,        *)
(* startProcessing and stopProcessing are synchronous; process() is cut at *)
(* its await of the processor and at its setTimeout.                       *)
(***************************************************************************)
\* Bounds: items accepted, process() loops started.
MaxItems == 4
MaxLoops == 2

QueueConfigs ==
  {[maxSize |-> m, batchSize |-> b] : m \in {0, 2, 3}, b \in {0, 1, 2}}

\* The processors callers pass to startProcessing.
Processors == {"p1", "p2"}

\* A batch taken from the wrong end of the queue.
BatchFromTail(q) ==
  SubSeq(q, Len(q) - Min(queueOptions.batchSize, Len(q)) + 1, Len(q))

\* this.queue.splice(0, this.batchSize): the items removed
Batch(q) == SubSeq(q, 1, Min(queueOptions.batchSize, Len(q)))

\* this.queue after the splice
AfterBatch(q) == SubSeq(q, Len(Batch(q)) + 1, Len(q))

\* A capacity test that admits one item too many.
QueueFullOffByOne(q) == Len(q) > queueOptions.maxSize

\* this.queue.length >= this.maxSize
QueueFull(q) == Len(q) >= queueOptions.maxSize

\* What one queue step did: the method or event, the loop it belongs to
\* (0: none), the item of an enqueue, the boolean an enqueue returned, the
\* batch taken, whether onFull was invoked, whether a loop was started.
QCall(op, l, item, ok, batch, full, started) ==
  [op |-> op, loop |-> l, item |-> item, ok |-> ok, batch |-> batch,
   onFull |-> full, started |-> started]

InitQueue ==
  /\ queueOptions \in QueueConfigs
  /\ queue = <<>>
  /\ processing = FALSE
  /\ queueTimer = 0
  /\ loops = <<>>
  /\ accepted = <<>>
  /\ handed = <<>>
  /\ wasCleared = FALSE
  /\ qlast = QCall("new", 0, 0, FALSE, <<>>, FALSE, FALSE)

\* enqueue(data): the items are numbered in the order they are offered.
Enqueue ==
  /\ LET item == Len(accepted) + 1 IN
     IF QueueFull(queue)
     THEN /\ qlast' = QCall("enqueue", 0, item, FALSE, <<>>, TRUE, FALSE)
          /\ UNCHANGED <<queue, accepted>>
     ELSE /\ Len(accepted) < MaxItems
          /\ queue' = Append(queue, item)
          /\ accepted' = Append(accepted, item)
          /\ qlast' = QCall("enqueue", 0, item, TRUE, <<>>, FALSE, FALSE)
  /\ UNCHANGED <<queueOptions, processing, queueTimer, loops, handed, wasCleared>>
  /\ UNCHANGED <<overlap, adapterVars, poolVars, sessionState, reconnectVars,
                 cacheVars, detectVars>>

\* dequeueBatch(), called from outside
DequeueBatch ==
  /\ queue' = AfterBatch(queue)
  /\ handed' = handed \o Batch(queue)
  /\ qlast' = QCall("dequeueBatch", 0, 0, FALSE, Batch(queue), FALSE, FALSE)
  /\ UNCHANGED <<queueOptions, processing, queueTimer, loops, accepted,
                 wasCleared>>
  /\ UNCHANGED <<overlap, adapterVars, poolVars, sessionState, reconnectVars,
                 cacheVars, detectVars>>

\* clear()
QueueClear ==
  /\ queue' = <<>>
  /\ wasCleared' = TRUE
  /\ qlast' = QCall("clear", 0, 0, FALSE, <<>>, FALSE, FALSE)
  /\ UNCHANGED <<queueOptions, processing, queueTimer, loops, accepted,
                 handed>>
  /\ UNCHANGED <<overlap, adapterVars, poolVars, sessionState, reconnectVars,
                 cacheVars, detectVars>>

\* The end of a round of loop l once the processor is done with, returned
\* or thrown: the next round is set on a timer while processing is on, else
\* the loop ends.
RoundEnd(ls, l, out) ==
  IF processing
  THEN [loops |-> [ls EXCEPT ![l].pc = "scheduled"], timer |-> l]
  ELSE [loops |-> [ls EXCEPT ![l].pc = "ended"], timer |-> queueTimer]

\* process(processor) for loop l of ls, entered with this.processing on:
\* one batch is dequeued; a batch that is not empty is handed to the
\* processor and awaited; an empty one ends the round at once.
ProcessBody(ls, l, op, started) ==
  LET batch == Batch(queue) IN
  /\ queue' = AfterBatch(queue)
  /\ handed' = handed \o batch
  /\ qlast' = QCall(op, l, 0, FALSE, batch, FALSE, started)
  /\ IF batch # <<>>
     THEN /\ loops' = [ls EXCEPT ![l].pc = "processing"]
          /\ UNCHANGED queueTimer
     ELSE /\ loops' = RoundEnd(ls, l, "ok").loops
          /\ queueTimer' = RoundEnd(ls, l, "ok").timer

\* startProcessing(processor): nothing while processing is on; else the
\* flag is set and process(processor) entered.
StartProcessing(p) ==
  /\ IF processing
     THEN /\ qlast' = QCall("startProcessing", 0, 0, FALSE, <<>>, FALSE, FALSE)
          /\ UNCHANGED <<queue, processing, queueTimer, loops, handed>>
     ELSE /\ Len(loops) < MaxLoops
          /\ processing' = TRUE
          /\ LET ls == Append(loops, [pc |-> "start", processor |-> p]) IN
             \* process() reads the flag that was just set
             LET batch == Batch(queue) IN
             /\ queue' = AfterBatch(queue)
             /\ handed' = handed \o batch
             /\ qlast' = QCall("startProcessing", Len(ls), 0, FALSE, batch,
                               FALSE, TRUE)
             /\ IF batch # <<>>
                THEN /\ loops' = [ls EXCEPT ![Len(ls)].pc = "processing"]
                     /\ UNCHANGED queueTimer
                ELSE /\ loops' = [ls EXCEPT ![Len(ls)].pc = "scheduled"]
                     /\ queueTimer' = Len(ls)
  /\ UNCHANGED <<queueOptions, accepted, wasCleared>>
  /\ UNCHANGED <<overlap, adapterVars, poolVars, sessionState, reconnectVars,
                 cacheVars, detectVars>>

\* stopProcessing(): the flag is cleared and the timer, if set, cancelled
\* and forgotten.
StopProcessing ==
  /\ processing' = FALSE
  /\ queueTimer' = 0
  /\ loops' = [i \in 1..Len(loops) |->
                 IF i = queueTimer /\ loops[i].pc = "scheduled"
                 THEN [loops[i] EXCEPT !.pc = "ended"] ELSE loops[i]]
  /\ qlast' = QCall("stopProcessing", 0, 0, FALSE, <<>>, FALSE, FALSE)
  /\ UNCHANGED <<queueOptions, queue, accepted, handed, wasCleared>>
  /\ UNCHANGED <<overlap, adapterVars, poolVars, sessionState, reconnectVars,
                 cacheVars, detectVars>>

\* The processor of loop l returns or throws; a throw is caught and logged.
ProcessorSettles(l, out) ==
  /\ l \in 1..Len(loops)
  /\ loops[l].pc = "processing"
  /\ loops' = RoundEnd(loops, l, out).loops
  /\ queueTimer' = RoundEnd(loops, l, out).timer
  /\ qlast' = QCall(IF out = "ok" THEN "processed" ELSE "processorThrew", l, 0,
                    FALSE, <<>>, FALSE, FALSE)
  /\ UNCHANGED <<queueOptions, queue, processing, accepted, handed, wasCleared>>
  /\ UNCHANGED <<overlap, adapterVars, poolVars, sessionState, reconnectVars,
                 cacheVars, detectVars>>

\* The timer of loop l fires: process(processor) is entered again and
\* returns at once when processing is off.
QueueTimerFires(l) ==
  /\ l \in 1..Len(loops)
  /\ loops[l].pc = "scheduled"
  /\ IF processing
     THEN ProcessBody(loops, l, "round", FALSE)
     ELSE /\ loops' = [loops EXCEPT ![l].pc = "ended"]
          /\ qlast' = QCall("round", l, 0, FALSE, <<>>, FALSE, FALSE)
          /\ UNCHANGED <<queue, handed, queueTimer>>
  /\ UNCHANGED <<queueOptions, processing, accepted, wasCleared>>
  /\ UNCHANGED <<overlap, adapterVars, poolVars, sessionState, reconnectVars,
                 cacheVars, detectVars>>

NextQueue ==
  \/ Enqueue
  \/ DequeueBatch
  \/ QueueClear
  \/ \E p \in Processors : StartProcessing(p)
  \/ StopProcessing
  \/ \E l \in 1..MaxLoops, out \in Outcomes : ProcessorSettles(l, out)
  \/ \E l \in 1..MaxLoops : QueueTimerFires(l)

(***************************************************************************)
(* The protocol detector on its own (src/src/utils/protocol.ts): calls of  *)
(* detectProtocol and clearProtocolCache against a memo map that is empty, *)
(* nearly full or full.                                                    *)
(***************************************************************************)
\* Urls that match several rules, no rule, or a rule only once lowered.
RtmpHlsUrl == <<"rtmp://", "host", "/hls/", "key">>
WsHlsUrl == <<"ws://", "host", "/live/", "key", ".m3u8">>
FlvDashUrl == <<"http://", "host", "/flv/", "key", ".mpd">>
WssUrl == <<"wss://", "host", "/live/", "key">>
UpperDashUrl == <<"HTTP://", "HOST", "/DASH/", "key">>
WsMiddleUrl == <<"http://", "host", "/live/", "ws://">>

DetectUrls ==
  {UpperRtmpUrl, HlsUrl, WebrtcUrl, PlainUrl, RtmpHlsUrl, WsHlsUrl,
   FlvDashUrl, WssUrl, UpperDashUrl, WsMiddleUrl}

\* The i-th of the other urls that were detected before.
Filler(i) == <<"http://", "host", "/live/", ToString(i)>>

\* The memo map after detectProtocol was called on the first n other urls.
Filled(n) ==
  {[url |-> Filler(i), protocol |-> DetectRules(Filler(i))] : i \in 1..n}

\* How many other urls were detected before the calls that are explored.
FillerCounts == {0, ProtocolCacheCap - 2, ProtocolCacheCap}

DCall(op, u, protocol, hit) ==
  [op |-> op, url |-> u, protocol |-> protocol, hit |-> hit]

InitDetect ==
  /\ protocolCache \in {Filled(n) : n \in FillerCounts}
  /\ dlast = DCall("none", EmptyUrl, None, FALSE)

\* detectProtocol(url)
DetectCall(u) ==
  /\ protocolCache' = CacheAfterDetect(protocolCache, u)
  /\ dlast' = DCall("detectProtocol", u, detectProtocol(protocolCache, u),
                    CacheGet(protocolCache, u) # None)
  /\ UNCHANGED <<sessionFields, channel, ioListeners, procs, temps, frameVars,
                 last>>
  /\ UNCHANGED <<overlap, adapterVars, poolVars, reconnectVars, cacheVars,
                 queueVars>>

\* clearProtocolCache()
ClearProtocolCache ==
  /\ protocolCache' = {}
  /\ dlast' = DCall("clearProtocolCache", EmptyUrl, None, FALSE)
  /\ UNCHANGED <<sessionFields, channel, ioListeners, procs, temps, frameVars,
                 last>>
  /\ UNCHANGED <<overlap, adapterVars, poolVars, reconnectVars, cacheVars,
                 queueVars>>

NextDetect ==
  \/ \E u \in DetectUrls : DetectCall(u)
  \/ ClearProtocolCache

(***************************************************************************)
(* Specifications.  Under Spec the caller is the single owner the sessions *)
(* are written for: it issues a call only when no call of the session is   *)
(* in flight.  Under SpecOverlap calls may be issued while others are      *)
(* suspended at an await (a stop() passes its guard only when no other     *)
(* stop() is in flight).  Messages and processes move freely in both.      *)
(***************************************************************************)
Calls ==
  \/ \E u \in SessionUrls, opt \in ConnectOptions : ConnectCall(u, opt)
  \/ ConnectReject
  \/ \E src \in Sources : PublishCall(src)
  \/ PublishReject
  \/ SubscribeCall
  \/ SubscribeReject
  \/ PubStopCall
  \/ SubStopCall
  \/ StopNoop
  \/ Play
  \/ Pause

Continuations ==
  \/ \E out \in Outcomes : ConnectListenDone(out)
  \/ ConnectTimerDone
  \/ \E out \in Outcomes : PublishMakeTempFile(out)
  \/ \E out \in Outcomes : PublishWriteFile(out)
  \/ PublishResolved
  \/ PublishSpawned
  \/ \E out \in Outcomes : PublishMakeTempDir(out)
  \/ PublishHlsSpawned
  \/ \E out \in Outcomes : SubscribeMakeTempFile(out)
  \/ SubscribeSpawned
  \/ \E out \in CloseOutcomes : PubStopIoCloseDone(out)
  \/ \E how \in WaitOutcomes : PubStopHlsDone(how)
  \/ \E out \in Outcomes : PubStopHlsRemoveDone(out)
  \/ \E how \in WaitOutcomes : PubStopFfmpegDone(how)
  \/ \E out \in Outcomes : PubStopTempRemoveDone(out)
  \/ SubStopFfmpegDone

Environment ==
  \/ SocketAck
  \/ SocketError
  \/ \E h \in 1..MaxSpawn : ProcExit(h)
  \/ \E h \in 1..MaxSpawn : ProcStopExited(h)
  \/ \E h \in 1..MaxSpawn, k \in KillOutcomes : ProcStopTimeout(h, k)
  \/ \E h \in 1..MaxSpawn, k \in KillOutcomes : ProcStopWaitRejected(h, k)

Next == Calls \/ Continuations \/ Environment

\* The components a specification does not move stay as constructed.
AdapterUnused == InitAdapter /\ adapter = "ffmpeg"

ReconnectUnused ==
  /\ InitReconnect
  /\ reconnectOptions.maxAttempts = 0
  /\ reconnectOptions.initialDelay = 100

CacheUnused ==
  InitCache /\ cacheOptions = [maxSize |-> 1, ttlGiven |-> FALSE, ttl |-> 0]

QueueUnused == InitQueue /\ queueOptions = [maxSize |-> 0, batchSize |-> 0]

DetectUnused == dlast = DCall("none", EmptyUrl, None, FALSE)

UtilsUnused == ReconnectUnused /\ CacheUnused /\ QueueUnused /\ DetectUnused

PoolUnused == InitPool /\ maxConnections = 1 /\ lateFactories = FALSE

SessionUnused ==
  InitSession /\ kind = "publisher" /\ io = None /\ eventListeners = {}

Init ==
  InitSession /\ overlap = FALSE /\ AdapterUnused /\ PoolUnused /\ UtilsUnused

Spec == Init /\ [][Next]_vars

InitOverlap ==
  InitSession /\ overlap = TRUE /\ AdapterUnused /\ PoolUnused /\ UtilsUnused

SpecOverlap == InitOverlap /\ [][Next]_vars

InitAdapterSpec ==
  InitAdapter /\ overlap = FALSE /\ SessionUnused /\ PoolUnused /\ UtilsUnused

SpecAdapter == InitAdapterSpec /\ [][NextAdapter]_vars

InitPoolSpec ==
  InitPool /\ lateFactories = FALSE /\ overlap = FALSE /\ SessionUnused
  /\ AdapterUnused /\ UtilsUnused

SpecPool == InitPoolSpec /\ [][NextPoolCalls]_vars

\* Factories that lose the race are followed on the pool of one connection.
InitPoolLate ==
  InitPool /\ maxConnections = 1 /\ lateFactories = TRUE /\ overlap = FALSE
  /\ SessionUnused /\ AdapterUnused /\ UtilsUnused

SpecPoolLate == InitPoolLate /\ [][NextPool]_vars

\* Overlapping callers are explored on the pool of one connection.
InitPoolOverlap ==
  InitPool /\ maxConnections = 1 /\ lateFactories = FALSE /\ overlap = TRUE
  /\ SessionUnused
  /\ AdapterUnused /\ UtilsUnused

SpecPoolOverlap == InitPoolOverlap /\ [][NextPoolCalls]_vars

\* The components next to the reconnect driver, as constructed.
OthersUnused == SessionUnused /\ AdapterUnused /\ PoolUnused

InitReconnectSpec ==
  InitReconnect /\ overlap = FALSE /\ OthersUnused /\ CacheUnused
  /\ QueueUnused /\ DetectUnused

SpecReconnect == InitReconnectSpec /\ [][NextReconnect]_vars

\* reconnect() calls that overlap, under the scheduling the runtime gives:
\* a timer that stays set fires, and connectFn() settles.  Nothing obliges
\* the caller to call reconnect(), reset() or stop().
InitReconnectFair ==
  /\ InitReconnect
  /\ reconnectOptions.maxAttempts \in {1, 2}
  /\ reconnectOptions.initialDelay = 100
  /\ overlap = TRUE
  /\ OthersUnused /\ CacheUnused /\ QueueUnused /\ DetectUnused

SpecReconnectFair ==
  /\ InitReconnectFair
  /\ [][NextReconnect]_vars
  /\ \A r \in 1..MaxRunsOverlap :
       /\ WF_vars(ReconnectTimerFires(r))
       /\ WF_vars(\E out \in Outcomes : ReconnectSettles(r, out))

InitCacheSpec ==
  InitCache /\ overlap = FALSE /\ OthersUnused /\ ReconnectUnused
  /\ QueueUnused /\ DetectUnused

SpecCache == InitCacheSpec /\ [][NextCache]_vars

InitQueueSpec ==
  InitQueue /\ overlap = FALSE /\ OthersUnused /\ ReconnectUnused
  /\ CacheUnused /\ DetectUnused

InitDetectSpec ==
  /\ InitSessionFields /\ kind = "publisher" /\ io = None
  /\ eventListeners = {}
  /\ InitDetect
  /\ overlap = FALSE /\ AdapterUnused /\ PoolUnused
  /\ ReconnectUnused /\ CacheUnused /\ QueueUnused

SpecDetect == InitDetectSpec /\ [][NextDetect]_vars

SpecQueue == InitQueueSpec /\ [][NextQueue]_vars

TypeOK ==
  /\ kind \in {"publisher", "subscriber"}
  /\ status \in (IF kind = "publisher" THEN PublisherStatus
                  ELSE SubscriberStatus)
  /\ io \in {None, "server"}
  /\ channel \in {"none", "open", "closed"}
  /\ eventListeners \subseteq Events
  /\ ffmpegProcess \in 0..Len(procs)
  /\ hlsProcess \in 0..Len(procs)
  /\ tempFilePath \in 0..Len(temps)
  /\ hlsTempDir \in 0..Len(temps)

(***************************************************************************)
(* Properties.                                                             *)
(***************************************************************************)
Range(s) == {s[i] : i \in 1..Len(s)}

IsPrefix(s, t) == Len(s) <= Len(t) /\ \A i \in 1..Len(s) : s[i] = t[i]

\* The primary processes (publish / subscribe) that are running.
AlivePrimary ==
  {h \in 1..Len(procs) : /\ procs[h].role \in {"publish", "subscribe"}
                         /\ procs[h].state = "running"}

\* C1: publish() / subscribe() called in a status other than connected throws
\* the typed state error naming the current status and the expected status
\* connected; status and every other field of the session stay as they were,
\* and no process is spawned.
C1_StateGuard ==
  [][(/\ last'.phase = "call"
      /\ last'.op \in {"publish", "subscribe"}
      /\ status # "connected")
     => /\ last'.outcome = "threw"
        /\ last'.error =
             [type |-> IF last'.op = "publish" THEN "PublisherStateError"
                       ELSE "SubscriberStateError",
              current |-> status, expected |-> "connected", cause |-> None]
        /\ status' = status
        /\ procs' = procs
        /\ UNCHANGED <<sessionVars, envVars, frameVars>>]_vars

\* A publish() rejected while the session is publishing with its process.
C1_Witness ==
  /\ last.op = "publish"
  /\ last.phase = "call"
  /\ last.outcome = "threw"
  /\ last.error.type = "PublisherStateError"
  /\ last.error.current = "publishing"
  /\ status = "publishing"
  /\ ffmpegProcess # 0
  /\ Len(procs) = 1

\* C2: every change of status is a pair of the transition table of the
\* session's class.
C2_TransitionsInTable ==
  [][LET chain == <<status>> \o last'.via \o <<status'>> IN
     \A i \in 1..(Len(chain) - 1) :
       chain[i] # chain[i + 1]
       => IF kind = "publisher"
          THEN isValidPublisherTransition(chain[i], chain[i + 1])
          ELSE isValidSubscriberTransition(chain[i], chain[i + 1])]_vars

\* C3: a stop() called after an earlier stop() of the session has returned
\* normally returns without throwing, performs no cleanup action and leaves
\* status stopped.
C3_SecondStopIsNoop ==
  [][(/\ last'.op = "stop"
      /\ last'.phase = "call"
      /\ stopPc = "none"
      /\ stopLog # <<>>
      /\ stopLog[Len(stopLog)] = "detachListeners")
     => /\ last'.outcome = "returned"
        /\ last'.acts = <<>>
        /\ status' = "stopped"]_vars

\* C3 (second half): no temp file or directory is removed more than once.
C3_RemovedAtMostOnce == \A t \in 1..Len(temps) : temps[t].removes <= 1

\* A second stop() that found status stopped, after a first one that removed
\* the temp file.
C3_Witness ==
  /\ last.op = "stop"
  /\ last.phase = "call"
  /\ last.outcome = "returned"
  /\ last.acts = <<>>
  /\ status = "stopped"
  /\ \E t \in 1..Len(temps) : temps[t].removes = 1

C5_StoppedAndReleased ==
  (/\ kind = "publisher"
   /\ last.op = "stop"
   /\ last.outcome = "returned"
   /\ last.acts # <<>>)
  => /\ status = "stopped"
     /\ ffmpegProcess = 0
     /\ hlsProcess = 0
     /\ hlsTempDir = 0
     /\ hlsPlaylistPath = 0
     /\ tempFilePath = 0
     /\ io = None

\* C5 (the handles alone): the same, without the status.
C5_Released ==
  (/\ kind = "publisher"
   /\ last.op = "stop"
   /\ last.outcome = "returned"
   /\ last.acts # <<>>)
  => /\ ffmpegProcess = 0
     /\ hlsProcess = 0
     /\ hlsTempDir = 0
     /\ hlsPlaylistPath = 0
     /\ tempFilePath = 0
     /\ io = None

\* A stop() of a publishing session has just returned.
C5_Witness ==
  /\ kind = "publisher"
  /\ last.op = "stop"
  /\ last.outcome = "returned"
  /\ previousStatus = "publishing"
  /\ "stopPrimary" \in Range(stopLog)
  /\ "removeTempFile" \in Range(stopLog)

\* C6: at most one primary process of the session is alive.
C6_OnePrimaryAlive == Cardinality(AlivePrimary) <= 1

\* A publish() or subscribe() call made while the primary process runs.
C6_Witness ==
  /\ last.op \in {"publish", "subscribe"}
  /\ last.phase = "call"
  /\ Cardinality(AlivePrimary) = 1

\* C7: a stop() that throws has attempted no cleanup action.
C7_ThrowsOnlyBeforeCleanup ==
  (last.op = "stop" /\ last.outcome = "threw") => stopLog = <<>>

C9_FailedConnectDisposes ==
  (/\ last.op = "connect"
   /\ last.outcome = "threw"
   /\ last.error.type # "Error:state")
  => /\ status = "error"
     /\ io = None

\* C10: when the process cannot be spawned during publish(), publish() throws
\* a ConnectionError carrying the cause, status is error and no process
\* handle is stored.
C10_SpawnFailure ==
  (last.op = "publish" /\ "spawnFailed" \in Range(last.acts))
  => /\ last.outcome = "threw"
     /\ last.error.type = "ConnectionError"
     /\ last.error.cause = "spawn"
     /\ status = "error"
     /\ ffmpegProcess = 0
     /\ hlsProcess = 0
     /\ AlivePrimary = {}

\* The transcoder of an HLS publish could not be spawned.
C10_Witness ==
  /\ last.op = "publish"
  /\ last.acts = <<"makeTempDir", "spawnFailed">>
  /\ last.error.type = "ConnectionError"
  /\ status = "error"


\* C11: when the stop() that ends the session has returned, removal has
\* been attempted for every temp file and directory the session created.
C11_AllTempsAttempted ==
  (/\ last.op = "stop"
   /\ last.outcome = "returned"
   /\ last.acts # <<>>)
  => \A t \in 1..Len(temps) : temps[t].removes >= 1

\* C11 (the HLS directory alone): the same for the HLS output directories.
C11_HlsDirAttempted ==
  (/\ last.op = "stop"
   /\ last.outcome = "returned"
   /\ last.acts # <<>>)
  => \A t \in 1..Len(temps) : temps[t].kind = "dir" => temps[t].removes >= 1

\* A stop() has returned after an HLS publish whose transcoder failed to
\* spawn: the directory was created and its removal was attempted.
C11_Witness ==
  /\ last.op = "stop"
  /\ last.outcome = "returned"
  /\ previousStatus = "error"
  /\ hlsProcess = 0
  /\ \E t \in 1..Len(temps) : temps[t].kind = "dir" /\ temps[t].removes = 1

\* C12: the stop routine of a process never rejects: once it has ended it has
\* resolved, whether kill threw, the exit wait rejected or timed out, or the
\* process had already exited.
C12_ProcStopNeverThrows ==
  \A h \in 1..Len(procs) :
    /\ procs[h].result # "rejected"
    /\ procs[h].stopPc = "done" => procs[h].result = "resolved"

\* A stop routine has ended although its kill(15) threw on a process that
\* had already exited.
C12_Witness ==
  \E h \in 1..Len(procs) :
    /\ procs[h].stopPc = "done"
    /\ procs[h].state = "exited"
    /\ procs[h].signals = <<>>

\* C13: when deleteStream(id) has ended it has returned, not thrown, and the
\* local map has no entry for id, whatever became of the remote delete.
C13_DeleteAlwaysLocal ==
  alast.op = "deleteStream"
  => /\ alast.outcome = "returned"
     /\ alast.id \notin Keys(streams)

\* A deleteStream has returned although its remote delete failed, and the
\* remote still has the stream.
C13_Witness ==
  /\ alast.op = "deleteStream"
  /\ alast.wrote = "fail"
  /\ alast.outcome = "returned"
  /\ Reported(alast.id)
  /\ alast.id \notin Keys(streams)

\* C14: a getStream or listStreams whose remote read failed returns all the
\* same, returns the local entry (or nothing) or the page of the local list,
\* and leaves the local map as it was.
C14_ReadsSurviveRemoteFailure ==
  [][(alast'.op \in {"getStream", "listStreams"} /\ alast'.pulled = "fail")
     => /\ adapter \in Fronting
        /\ alast'.outcome = "returned"
        /\ streams' = streams
        /\ alast'.op = "getStream"
           => alast'.value = MapGet(streams, alast'.id)
        /\ alast'.op = "listStreams"
           => alast'.value = Page(streams, alast'.page[1], alast'.page[2])]_vars

\* A read whose remote read failed has returned an entry of the local map.
C14_Witness ==
  /\ alast.op \in {"getStream", "listStreams"}
  /\ alast.pulled = "fail"
  /\ alast.value # <<>>
  /\ alast.value[1].id \in Keys(streams)

\* The ids the remote reports as being published: for LiveKit a room with
\* participants, for the others any reported stream.
ReportedPublishing(id) ==
  IF adapter = "livekit" THEN remote[id] = "live" ELSE Reported(id)

\* The reads that merge the whole listing: listStreams, and the getStream of
\* nginx-rtmp.
MergesListing(c) ==
  c.op = "listStreams" \/ (c.op = "getStream" /\ adapter = "nginx-rtmp")

\* C15: after a read that pulled the remote listing, every stream the remote
\* reports is in the local map, no local entry has been dropped, and a local
\* entry is publishing exactly when the remote reports it.
C15_SyncMatchesRemote ==
  [][alast'.pulled = "ok"
     => /\ MergesListing(alast')
           => \A id \in StreamIds : Reported(id) => id \in Keys(streams')
        /\ Keys(streams) \subseteq Keys(streams')
        /\ \A i \in 1..Len(streams') :
             streams'[i].status = "publishing"
             <=> ReportedPublishing(streams'[i].id)]_vars

\* C15 (the part about membership): after a read that merged the remote
\* listing, every reported stream is in the local map and no local entry
\* has been dropped.
C15_ListingMerged ==
  [][(alast'.pulled = "ok" /\ MergesListing(alast'))
     => /\ \A id \in StreamIds : Reported(id) => id \in Keys(streams')
        /\ Keys(streams) \subseteq Keys(streams')]_vars

\* A read has merged the listing into a map that holds a locally created
\* stream the remote does not report and a stream only the remote knew.
C15_Witness ==
  /\ alast.pulled = "ok"
  /\ MergesListing(alast)
  /\ \E i \in 1..Len(streams) :
       streams[i].origin = "created" /\ ~Reported(streams[i].id)
  /\ \E i \in 1..Len(streams) :
       streams[i].origin = "synced" /\ Reported(streams[i].id)

\* C16: the id createStream assigns is not a key of the local map at the
\* time of the call.
C16_CreatedIdIsNew ==
  [][(alast'.op = "createStream" /\ alast'.outcome = "returned")
     => alast'.id \notin Keys(streams)]_vars

\* C16 (generated ids alone): an id that createStream took from generateId
\* is not a key of the local map at the time of the call.
C16_GeneratedIdIsNew ==
  [][(/\ alast'.op = "createStream"
      /\ alast'.outcome = "returned"
      /\ alast'.id \notin CallerNames)
     => alast'.id \notin Keys(streams)]_vars

\* A stream has been created under a generated id next to another one.
C16_Witness ==
  /\ alast.op = "createStream"
  /\ alast.outcome = "returned"
  /\ alast.id = MaxGenerated
  /\ Len(streams) >= 2

\* The port a url addresses: the default of the scheme when none is given.
EffectivePort(u) == IF u.port = "" THEN "80" ELSE u.port

\* Two urls address the same origin: the same scheme, host and port; a
\* string that is no url is an origin of its own.
SameOrigin(u, v) ==
  IF u.valid /\ v.valid
  THEN /\ u.scheme = v.scheme
       /\ u.host = v.host
       /\ EffectivePort(u) = EffectivePort(v)
  ELSE u = v

\* C17: while an active entry exists for an origin, a getConnection for a
\* url of that origin returns that entry's connection object, does not
\* invoke the factory, and changes nothing but the entry's lastUsed.
C17_ActiveEntryReused ==
  [][\A i \in 1..Len(connections) :
       (/\ connections[i].isActive
        /\ plast'.op = "getConnection"
        /\ plast'.phase = "call"
        /\ SameOrigin(connections[i].url, plast'.url))
       => /\ plast'.outcome = "returned"
          /\ plast'.conn = connections[i].conn
          /\ ~plast'.factory
          /\ made' = made
          /\ pending' = pending
          /\ connections' = [connections EXCEPT ![i].lastUsed = now]]_vars

\* The second of two getConnection calls for one origin, under another path
\* and with the default port spelled out, has returned the connection the
\* first one made; the factory ran once.
C17_Witness ==
  /\ plast.op = "getConnection"
  /\ plast.phase = "call"
  /\ plast.outcome = "returned"
  /\ plast.url = PoolUrl("http:", "h1", "80", "/b?q=1")
  /\ Len(made) = 1
  /\ Len(connections) = 1
  /\ connections[1].url = PoolUrl("http:", "h1", "", "/a")
  /\ connections[1].conn = plast.conn

\* No active entry serves the url u.
NoActiveEntryFor(u) ==
  \A i \in 1..Len(connections) :
    SameOrigin(connections[i].url, u) => ~connections[i].isActive

\* C18: with calls that do not overlap the pool never tracks more than
\* maxConnections entries; a getConnection that needs a new connection at
\* capacity sweeps the idle entries first and, when none was idle, fails
\* with the pool-full error without invoking the factory and without
\* changing the pool; the pool-full error arises in no other case.
C18_CapacityHeld ==
  /\ [](Len(connections) <= maxConnections)
  /\ [][(plast'.op = "getConnection" /\ plast'.phase = "call")
        => /\ (/\ NoActiveEntryFor(plast'.url)
               /\ Len(connections) >= maxConnections
               /\ \A i \in 1..Len(connections) : ~IsIdle(connections[i]))
              => /\ plast'.outcome = "threw:full"
                 /\ ~plast'.factory
                 /\ made' = made
                 /\ pending' = pending
                 /\ connections' = connections
           /\ (/\ NoActiveEntryFor(plast'.url)
               /\ Len(connections) >= maxConnections
               /\ \E i \in 1..Len(connections) : IsIdle(connections[i]))
              => /\ plast'.outcome = "pending"
                 /\ plast'.factory
                 /\ Len(connections') < Len(connections)
                 /\ \A i \in 1..Len(connections') :
                      ~IsIdle(connections'[i])
           /\ plast'.outcome = "threw:full"
              => /\ NoActiveEntryFor(plast'.url)
                 /\ Len(connections) >= maxConnections]_vars

\* A getConnection for a third origin has failed with the pool-full error
\* on a pool of two entries.
C18_Witness ==
  /\ plast.op = "getConnection"
  /\ plast.outcome = "threw:full"
  /\ ~plast.factory
  /\ maxConnections = 2
  /\ Len(connections) = 2

\* C19: with getConnection calls that overlap, the pool tracks at most one
\* entry more than maxConnections.
C19_OvershootAtMostOne == Len(connections) <= maxConnections + 1

\* C20 (the stop() call itself): stop() clears both timers, calls close or
\* destroy on every tracked connection that has one of them, and leaves the
\* pool empty.
C20_StopEmptiesPool ==
  [][plast'.op = "stop"
     => /\ ~keepAliveTimer'
        /\ ~cleanupTimer'
        /\ getStats'.total = 0
        /\ \A i \in 1..Len(connections) :
             made[connections[i].conn].kind # "plain"
             => made'[connections[i].conn].closes
                  = made[connections[i].conn].closes + 1]_vars

\* A stop() has closed a tracked connection and emptied the pool.
C20_Witness ==
  /\ plast.op = "stop"
  /\ getStats.total = 0
  /\ PoolStopped
  /\ \E c \in 1..Len(made) : made[c].closes = 1

\* C20: after stop() the pool is empty and stays empty in every step that is
\* not the step of a getConnection call begun after stop().
C20_StaysEmptyAfterStop ==
  [][/\ plast'.op = "stop" => getStats'.total = 0
     /\ (/\ PoolStopped
         /\ getStats.total = 0
         /\ ~(plast'.op = "getConnection" /\ plast'.late))
        => getStats'.total = 0]_vars

\* C21 (the release itself): releaseConnection(url, false) keeps every entry
\* tracked and changes nothing but the isActive mark of the entry of that
\* origin, which becomes inactive.
C21_ReleaseMarksInactive ==
  [][(plast'.op = "releaseConnection" /\ Len(connections') = Len(connections))
     => /\ made' = made
        /\ \A i \in 1..Len(connections) :
             connections'[i] =
               IF SameOrigin(connections[i].url, plast'.url)
               THEN [connections[i] EXCEPT !.isActive = FALSE]
               ELSE connections[i]]_vars

\* An entry has been released without closing: it is tracked and inactive.
C21_Witness ==
  /\ plast.op = "releaseConnection"
  /\ \E i \in 1..Len(connections) :
       /\ SameOrigin(connections[i].url, plast.url)
       /\ ~connections[i].isActive
       /\ made[connections[i].conn].closes = 0

\* C21: a getConnection for an origin whose entry was released and is still
\* tracked returns that entry's connection object and does not invoke the
\* factory.
C21_ReleasedEntryReused ==
  [][\A i \in 1..Len(connections) :
       (/\ ~connections[i].isActive
        /\ plast'.op = "getConnection"
        /\ plast'.phase = "call"
        /\ SameOrigin(connections[i].url, plast'.url))
       => /\ plast'.outcome = "returned"
          /\ plast'.conn = connections[i].conn
          /\ ~plast'.factory]_vars

\* The connection objects the pool's map holds.
Tracked == {connections[i].conn : i \in 1..Len(connections)}

\* The connection objects that have close() or destroy(), are not tracked
\* and never had it called.
Orphans ==
  {c \in 1..Len(made) : /\ made[c].kind # "plain"
                        /\ c \notin Tracked
                        /\ made[c].closes = 0}

\* C38: every connection object a factory() call of getConnection resolved
\* with is tracked in the pool's map or has had close / destroy called on it
\* (objects that have neither method are left aside).
C38_NeverOrphaned == Orphans = {}

\* C38 (what holds): when a key leaves the map (idle sweep, release with
\* close, stop) the connection object it held is closed in the same step;
\* an object becomes an orphan only by its key being given another object.
C38_RemovalCloses ==
  [][\A i \in 1..Len(connections) :
       (/\ \A j \in 1..Len(connections') : connections'[j].id # connections[i].id
        /\ made[connections[i].conn].kind # "plain")
       => made'[connections[i].conn].closes
            = made[connections[i].conn].closes + 1]_vars

\* A second getConnection for an origin has just registered its own object
\* in place of a tracked one that was never closed.
C38_Witness ==
  /\ plast.op = "getConnection"
  /\ plast.phase = "resume"
  /\ plast.outcome = "returned"
  /\ Orphans # {}
  /\ plast.conn \in Tracked

\* A run that began with a zeroed attempt counter and was not disturbed by
\* reset() or stop().
Undisturbed(run) == run.fresh /\ ~run.halted

C24_ResetClears ==
  [][rlast'.op \in {"reset", "stop"}
     => /\ attempts' = 0
        /\ timer' = 0
        /\ \A r \in 1..Len(runs') : runs'[r].pc # "waiting"]_vars

\* stop() has cancelled the timer a run was waiting on.
C24_Witness ==
  /\ rlast.op = "stop"
  /\ attempts = 0
  /\ timer = 0
  /\ \E r \in 1..Len(runs) :
       runs[r].pc = "hung" /\ runs[r].halted /\ runs[r].calls >= 1

\* C24: a run that was in progress when reset() or stop() was called
\* invokes connectFn no more and schedules no timer.
C24_HaltedRunIsQuiet ==
  [][\A r \in 1..Len(runs) :
       (runs[r].halted /\ rlast'.run = r)
       => ~rlast'.scheduled /\ ~rlast'.invoked]_vars

\* A reconnect() call r has settled; a run cut short by the bound on
\* connectFn invocations counts as settled.
Settled(r) ==
  r <= Len(runs) /\ (runs[r].pc = "done" \/ runs[r].calls >= MaxCalls)

\* The timer a reconnect() call r waited on was cleared.
Hung(r) == r <= Len(runs) /\ runs[r].pc = "hung"

\* C39: every reconnect() call eventually settles: its promise is resolved
\* or rejected.
C39_EveryCallSettles ==
  \A r \in 1..MaxRunsOverlap : [](r <= Len(runs) => <>Settled(r))

\* C39 (what holds): a reconnect() call settles unless the timer it waits
\* on is cleared by reset(), stop() or another reconnect().
C39_SettlesUnlessCleared ==
  \A r \in 1..MaxRunsOverlap :
    [](r <= Len(runs) => <>(Settled(r) \/ Hung(r)))

\* A second reconnect() has cleared the timer the first call waits on, and
\* has settled itself.
C39_Witness ==
  /\ Len(runs) = 2
  /\ runs[1].pc = "hung"
  /\ ~runs[1].halted
  /\ runs[2].pc = "done"

\* this.cache.keys()
LruKeys(c) == {c[i].key : i \in 1..Len(c)}

\* C25: without a ttl, a set() of a new key on a cache holding maxSize
\* entries removes exactly the key least recently set or got and inserts
\* the new one, leaving the other entries as they were; a get() hit makes
\* its key the most recently used.
C25_EvictsLeastRecentlyUsed ==
  [][/\ (/\ clast'.op = "set"
         /\ ~clast'.hit
         /\ ~cacheOptions.ttlGiven
         /\ Len(lruCache) = cacheOptions.maxSize
         /\ lruCache # <<>>)
        => /\ clast'.removed = {Head(recency)}
           /\ LruKeys(lruCache') =
                (LruKeys(lruCache) \ {Head(recency)}) \cup {clast'.key}
           /\ \A i \in 1..Len(lruCache) :
                lruCache[i].key # Head(recency)
                => \E j \in 1..Len(lruCache') : lruCache'[j] = lruCache[i]
     /\ (clast'.op = "get" /\ clast'.value # Miss)
        => /\ recency'[Len(recency')] = clast'.key
           /\ lruCache'[Len(lruCache')].key = clast'.key
           /\ LruKeys(lruCache') = LruKeys(lruCache)]_vars

\* A set() has evicted b although a was inserted earlier: a had been got
\* in between.
C25_Witness ==
  /\ clast.op = "set"
  /\ clast.key = "c"
  /\ clast.removed = {"b"}
  /\ ~cacheOptions.ttlGiven
  /\ cacheOptions.maxSize = 2
  /\ Len(lruCache) = 2
  /\ lruCache[1].key = "a"

\* C26: the number of resident entries never exceeds maxSize.
C26_SizeBounded == Len(lruCache) <= cacheOptions.maxSize

\* C26 (for a positive maxSize): the number of resident entries never
\* exceeds maxSize, and a set() on a resident key removes nothing, keeps the
\* key set and stores the new value and time.
C26_SizeBoundedFromOne ==
  /\ [](cacheOptions.maxSize >= 1 => Len(lruCache) <= cacheOptions.maxSize)
  /\ [][(clast'.op = "set" /\ clast'.hit)
        => /\ clast'.removed = {}
           /\ LruKeys(lruCache') = LruKeys(lruCache)
           /\ Len(lruCache') = Len(lruCache)
           /\ \E j \in 1..Len(lruCache') :
                /\ lruCache'[j].key = clast'.key
                /\ lruCache'[j].timestamp = clock]_vars

\* A set() on a resident key of a full cache has removed nothing.
C26_Witness ==
  /\ clast.op = "set"
  /\ clast.hit
  /\ clast.removed = {}
  /\ cacheOptions.maxSize = 2
  /\ Len(lruCache) = 2

\* The age of an entry exceeds the ttl that was configured.
Overdue(e) == cacheOptions.ttlGiven /\ clock - e.timestamp > cacheOptions.ttl

\* C27: with a ttl configured, a get() of an entry whose age exceeds the
\* ttl is a miss and removes the entry.
C27_GetNeverReturnsOverdue ==
  [][\A i \in 1..Len(lruCache) :
       (/\ clast'.op = "get"
        /\ clast'.key = lruCache[i].key
        /\ Overdue(lruCache[i]))
       => /\ clast'.value = Miss
          /\ clast'.key \notin LruKeys(lruCache')]_vars

\* C27 (for a positive ttl): such a get() is a miss and removes the entry;
\* the passing of time removes nothing; cleanup() removes all and only the
\* overdue entries and returns their number.
C27_PositiveTtl ==
  [][cacheOptions.ttl >= 1
     => /\ \A i \in 1..Len(lruCache) :
             (/\ clast'.op = "get"
              /\ clast'.key = lruCache[i].key
              /\ Overdue(lruCache[i]))
             => /\ clast'.value = Miss
                /\ clast'.key \notin LruKeys(lruCache')
        /\ clast'.op = "clock" => lruCache' = lruCache
        /\ clast'.op = "cleanup"
           => /\ lruCache' = SelectSeq(lruCache, LAMBDA e : ~Overdue(e))
              /\ clast'.value = Len(lruCache) - Len(lruCache')]_vars

\* A get() has missed on an entry that had outlived its ttl, and removed it,
\* while another overdue entry is still resident.
C27_Witness ==
  /\ clast.op = "get"
  /\ clast.hit
  /\ clast.value = Miss
  /\ clast.removed = {clast.key}
  /\ \E i \in 1..Len(lruCache) : Overdue(lruCache[i])

(***************************************************************************)
(* DataQueue claims, checked under SpecQueue.                              *)
(***************************************************************************)
\* C28: enqueue on a queue holding maxSize items returns false, invokes
\* onFull and leaves the queue as it was; otherwise the item is appended at
\* the tail and true returned; the size never exceeds maxSize.
C28_EnqueueBounded ==
  /\ [](Len(queue) <= queueOptions.maxSize)
  /\ [][qlast'.op = "enqueue" =>
          IF Len(queue) >= queueOptions.maxSize
          THEN /\ ~qlast'.ok
               /\ qlast'.onFull
               /\ queue' = queue
          ELSE /\ qlast'.ok
               /\ ~qlast'.onFull
               /\ queue' = queue \o <<qlast'.item>>]_vars

\* A queue of three items has just refused a fourth.
C28_Witness ==
  /\ qlast.op = "enqueue"
  /\ ~qlast.ok
  /\ qlast.onFull
  /\ queueOptions.maxSize = 3
  /\ Len(queue) = 3

\* C29: dequeueBatch removes and returns the min(batchSize, size) oldest
\* items in acceptance order; as long as only enqueue and dequeueBatch act
\* on the queue, the items handed out followed by the items still queued
\* are the accepted items in acceptance order, each exactly once.
C29_FifoExactlyOnce ==
  /\ [](~wasCleared => accepted = handed \o queue)
  /\ [][qlast'.op = "dequeueBatch" =>
          LET n == IF queueOptions.batchSize < Len(queue)
                   THEN queueOptions.batchSize ELSE Len(queue) IN
          /\ qlast'.batch = [i \in 1..n |-> queue[i]]
          /\ queue' = [i \in 1..(Len(queue) - n) |-> queue[i + n]]
          /\ handed' = handed \o qlast'.batch]_vars

\* Four items went through a queue of batch size 2 and all came out, the
\* last call returning two of them.
C29_Witness ==
  /\ qlast.op = "dequeueBatch"
  /\ ~wasCleared
  /\ queueOptions.batchSize = 2
  /\ Len(qlast.batch) = 2
  /\ handed = <<1, 2, 3, 4>>
  /\ queue = <<>>

InFlight == {l \in 1..Len(loops) : loops[l].pc = "processing"}

Rescheduled == {l \in 1..Len(loops) : loops[l].pc = "scheduled"}

\* C40: at any time at most one processor invocation is in flight and at
\* most one reschedule timer is pending.
C40_OneInFlightOneTimer ==
  Cardinality(InFlight) <= 1 /\ Cardinality(Rescheduled) <= 1

\* C40 (what holds): while processing is off, no step other than a
\* startProcessing call hands a batch to a processor or sets a timer; so
\* after stopProcessing with no later startProcessing the processor is
\* never invoked again.
C40_StoppedNeverInvokes ==
  [][(~processing /\ qlast'.op # "startProcessing")
     => /\ ~processing'
        /\ InFlight' \subseteq InFlight
        /\ Rescheduled' \subseteq Rescheduled
        /\ qlast'.op \in {"round", "processed", "processorThrew"}
           => qlast'.batch = <<>> /\ queue' = queue]_vars

\* A timer left over from an earlier loop fires after stopProcessing, with
\* items waiting: process() returns at once.
C40_Witness ==
  /\ ~processing
  /\ qlast.op = "round"
  /\ queue # <<>>
  /\ loops[qlast.loop].pc = "ended"
  /\ Len(loops) = 2


(***************************************************************************)
(* Detector claim, checked under SpecDetect.                               *)
(***************************************************************************)
\* The rules as the specification lists them: the lowered url is tried
\* against each rule in order and the first that matches gives the tag.
FirstMatch(u) ==
  LET low == toLowerCase(u)
      begins(f) == low # <<>> /\ Head(low) = f
      holds(f) == f \in {low[i] : i \in DOMAIN low}
      rules == << <<begins("rtmp://"), "rtmp">>,
                  <<holds(".m3u8") \/ holds("/hls/"), "hls">>,
                  <<holds(".flv") \/ holds("/flv/"), "flv">>,
                  <<begins("ws://") \/ begins("wss://") \/ holds("/webrtc/"),
                    "webrtc">>,
                  <<holds(".mpd") \/ holds("/dash/"), "dash">>,
                  <<TRUE, "rtmp">> >>
      first == CHOOSE i \in DOMAIN rules :
                 rules[i][1] /\ \A j \in 1..(i - 1) : ~rules[j][1]
  IN rules[first][2]

\* C31: whatever the memo map holds, detectProtocol(url) returns the tag of
\* the first matching rule; the map never holds more than 1000 entries and
\* every entry it holds carries the tag the rules give for its url.
C31_DetectIsPure ==
  /\ Cardinality(protocolCache) <= 1000
  /\ \A e \in protocolCache : e.protocol = FirstMatch(e.url)
  /\ dlast.op = "detectProtocol" => dlast.protocol = FirstMatch(dlast.url)

\* A url was detected on a full map, which stayed as it was, and the url
\* matches a later rule as well as the one that decided.
C31_Witness ==
  /\ dlast.op = "detectProtocol"
  /\ dlast.url = FlvDashUrl
  /\ dlast.protocol = "flv"
  /\ ~dlast.hit
  /\ Cardinality(protocolCache) = 1000
  /\ \A e \in protocolCache : e.url # FlvDashUrl

(***************************************************************************)
(* Session claims C32 to C37, checked under Spec and SpecOverlap.          *)
(***************************************************************************)
\* C32 (one direction): pause() on a playing subscriber moves it to
\* buffering.
C32_PauseBuffers ==
  [][(/\ last'.op = "pause"
      /\ last'.phase = "call"
      /\ status = "playing")
     => status' = "buffering"]_vars

\* A playing subscriber was paused and is buffering.
C32_Witness ==
  /\ kind = "subscriber"
  /\ last.op = "pause"
  /\ last.outcome = "returned"
  /\ status = "buffering"

\* C32: play() on a buffering subscriber moves it back to playing and does
\* not throw.
C32_PlayResumes ==
  [][(/\ last'.op = "play"
      /\ last'.phase = "call"
      /\ status = "buffering")
     => /\ status' = "playing"
        /\ last'.outcome # "threw"]_vars

\* The step in which a stop() from an active status ends normally.
StopCompletes ==
  /\ last'.op = "stop"
  /\ last'.outcome = "returned"
  /\ last'.acts # <<>>
  /\ last'.acts[Len(last'.acts)] = "detachListeners"

\* C33: when stop() completes from an active status, the listeners that
\* were registered for disconnected are invoked.
C33_DisconnectedDelivered ==
  [][(StopCompletes /\ "disconnected" \in eventListeners)
     => last'.emits = <<"disconnected">>]_vars

\* C33 (what the sessions do): when stop() completes from an active status
\* no listener is invoked and none stays registered.
C33_DisconnectedLost ==
  [][StopCompletes => last'.emits = <<>> /\ eventListeners' = {}]_vars

\* A session that had listeners has completed its stop() and is stopped.
C33_Witness ==
  /\ last.op = "stop"
  /\ last.outcome = "returned"
  /\ last.acts # <<>>
  /\ status = "stopped"
  /\ eventListeners = {}
  /\ last.emits = <<>>
  /\ \E i \in 1..Len(stopLog) : stopLog[i] = "detachListeners"

\* C34: in the stop routine of a process the graceful signal 15 is sent
\* first; the force-kill signal 9 is sent only by a routine that delivered
\* 15 and whose wait for the exit timed out or failed; a routine whose
\* child exited within the timeout sends nothing more; each signal is sent
\* at most once.
C34_GracefulThenForced ==
  /\ [](\A h \in 1..Len(procs) :
          procs[h].signals \in {<<>>, <<15>>, <<15, 9>>})
  /\ [][\A h \in 1..Len(procs) :
          /\ procs'[h].signals # procs[h].signals
             => \/ /\ procs'[h].signals = <<15>>
                   /\ procs[h].stopPc = "idle"
                   /\ procs'[h].stopPc = "waiting"
                \/ /\ procs'[h].signals = <<15, 9>>
                   /\ procs[h].stopPc = "waiting"
                   /\ last'.op = "process.stop"
                   /\ "kill9" \in {last'.acts[i] : i \in DOMAIN last'.acts}
          /\ (/\ procs[h].stopPc = "waiting"
              /\ procs'[h].stopPc = "done"
              /\ last'.acts = <<>>)
             => /\ procs[h].state = "exited"
                /\ procs'[h].signals = procs[h].signals]_vars

\* A routine delivered 15, its wait timed out and it has just sent 9.
C34_Witness ==
  /\ last.op = "process.stop"
  /\ last.acts = <<"kill9">>
  /\ \E h \in 1..Len(procs) :
       /\ procs[h].signals = <<15, 9>>
       /\ procs[h].stopPc = "done"

\* C36: once status is stopped no later step changes it.
C36_StoppedIsTerminal == [][status = "stopped" => status' = "stopped"]_vars

\* C36 (the calls): connect, publish, subscribe, play, pause and stop
\* called on a stopped session throw or return at once, begin nothing and
\* leave status stopped.
C36_StoppedRejectsCalls ==
  [][(/\ status = "stopped"
      /\ last'.phase = "call"
      /\ last'.op \in {"connect", "publish", "subscribe", "play", "pause",
                       "stop"})
     => /\ status' = "stopped"
        /\ last'.outcome \in {"threw", "returned"}
        /\ last'.acts = <<>>
        /\ last'.op \in {"connect", "publish", "subscribe", "play"}
           => last'.outcome = "threw"]_vars

\* connect() was called on a stopped session and threw.
C36_Witness ==
  /\ status = "stopped"
  /\ last.op = "connect"
  /\ last.phase = "call"
  /\ last.outcome = "threw"
  /\ stopLog # <<>>

\* The processes the stop routine was never invoked on and that still run.
Unstopped ==
  {h \in 1..Len(procs) : procs[h].state = "running" /\ procs[h].stopPc = "idle"}

\* C37: when no call of the session is in progress and status is stopped, no
\* process spawned by the session is still running without its stop routine
\* having been invoked, and the session stores no handle of such a process
\* (a further stop() returns at once in status stopped and would skip it).
C37_NoLeakedProcess ==
  (Quiet /\ status = "stopped") => Unstopped = {}

\* C37 (what holds): a process left running by a finished stop() is one whose
\* handle the session stores, so only a stop() that ran its cleanup again
\* could reach it.
C37_LeakedIsStored ==
  (Quiet /\ status = "stopped") => Unstopped \subseteq {ffmpegProcess, hlsProcess}

\* stop() returned while subscribe() / publish() was awaiting, and the call
\* stored the handle of its running process afterwards.
C37_Witness ==
  /\ Quiet
  /\ status = "stopped"
  /\ ffmpegProcess \in Unstopped
  /\ last.op \in {"publish", "subscribe"}
  /\ last.phase = "resume"

(***************************************************************************)
(* Connection pool claim C35, checked under SpecPoolLate: factory() calls  *)
(* that settle after the connect timeout.                                  *)
(***************************************************************************)
\* C35 (as the pool behaves): a getConnection whose factory() rejects or
\* loses the race against the timeout throws the wrapped error and that
\* step changes no entry and makes no object; a factory() that settles
\* after its timeout changes no entry either; before factory() is started
\* the call removes at most the entries that are inactive and idle for
\* longer than idleTimeout.
C35_FailureRegistersNothing ==
  [][/\ (/\ plast'.op = "getConnection"
         /\ plast'.phase = "resume"
         /\ plast'.outcome # "returned")
        => /\ plast'.outcome = "threw:create"
           /\ plast'.conn = 0
           /\ connections' = connections
           /\ made' = made
     /\ plast'.op = "factory" => connections' = connections
     /\ (plast'.op = "getConnection" /\ plast'.outcome = "pending")
        => connections' =
             SelectSeq(connections,
                       LAMBDA e : e.isActive \/ now - e.lastUsed <= IdleTimeout)
             \/ connections' = connections]_vars

\* A factory has resolved after its getConnection timed out, and the pool
\* tracks nothing.
C35_Witness ==
  /\ plast.op = "factory"
  /\ plast.outcome = "resolved"
  /\ connections = <<>>
  /\ made = <<>>
  /\ BagIn("object", abandoned)

\* C35: a getConnection that fails after starting factory() leaves the
\* tracked entries and their flags as they were before the call: neither
\* the part of the call before factory() nor its failure changes them.
C35_EntriesAsBeforeCall ==
  [][(/\ plast'.op = "getConnection"
      /\ plast'.outcome \in {"pending", "threw:create"})
     => connections' = connections]_vars

====
